---- MODULE Spec2Model ----
(***************************************************************************)
(* Process-group lifecycle of distributed_c10d.py: the per-rank group      *)
(* registries (_pg_map, _pg_names, _pg_group_ranks, GroupMember.WORLD,     *)
(* _group_count), group creation (init_process_group, new_group,           *)
(* _new_process_group_helper), destroy_process_group and the store based   *)
(* barrier that ends every group creation.  Every rank is one process      *)
(* with its own registries; the ranks share only the key-value stores.     *)
(***************************************************************************)
EXTENDS Integers, Sequences, FiniteSets, TLC

\* ---------------------------------------------------------------- bounds
\* number of processes of the job (the world size every rank passes to init)
NumRanks == 2
\* total number of API calls (init / new_group / destroy) in one behaviour
\* of the job of NumRanks processes
MaxCalls == 4
\* number of API calls of the one process that SpecLocal follows
MaxLocalCalls == 3
\* longest rank list handed to new_group
MaxListLen == 1
\* number of distinct store objects a caller can hand to init_process_group
NumStores == 1
\* length of the program that every rank of SpecSync runs
MaxScript == 2
\* total number of API calls in one behaviour of SpecLive
MaxLiveCalls == 6
\* number of init / new_group / destroy calls of the process SpecOps follows
MaxOpCalls == 3
\* longest list handed to batch_isend_irecv
MaxBatch == 2
\* number of init / new_group calls of the process SpecBatch follows
MaxBatchCalls == 2
\* number of register_backend / init / new_group calls of the process
\* SpecBackend follows
MaxBackendCalls == 3
\* longest rank list handed to new_group in SpecLists
MaxRanksLen == 3
\* number of init / new_group calls of the process SpecLists follows
MaxListsCalls == 2

Ranks == 0 .. (NumRanks - 1)
Stores == 1 .. NumStores

\* ------------------------------------------------------------ constants
\* Python's None, as a handle / as an omitted argument
None == "None"
NON_GROUP_MEMBER == "NON_GROUP_MEMBER"
STORE_BASED_BARRIER_PREFIX == "store_based_barrier_key"

\* an optional integer: <<>> is Python's None, <<k>> the integer k
NoInt == << >>
Some(k) == << k >>

\* -------------------------------------------------------------- helpers
Range(f) == { f[x] : x \in DOMAIN f }
Put(f, k, v) == [x \in (DOMAIN f) \cup {k} |-> IF x = k THEN v ELSE f[x]]
\* faulty variant: the registry is cleared instead of losing one entry
DelAll(f, k) == [x \in {} |-> f[x]]

Del(f, k) == [x \in (DOMAIN f) \ {k} |-> f[x]]
Empty == [x \in {} |-> 0]
Elems(s) == { s[i] : i \in DOMAIN s }

\* str(n) of a non-negative integer
Str(n) == ToString(n)

\* sorted(ranks): ascending insertion sort
RECURSIVE Insert(_, _)
Insert(x, s) ==
  IF s = << >> THEN << x >>
  ELSE IF x <= Head(s) THEN << x >> \o s
  ELSE << Head(s) >> \o Insert(x, Tail(s))

RECURSIVE Sorted(_)
Sorted(s) == IF s = << >> THEN << >> ELSE Insert(Head(s), Sorted(Tail(s)))

\* ranks.index(x): 0-based position of the first occurrence
Index(s, x) == (CHOOSE i \in DOMAIN s : s[i] = x /\ \A j \in 1 .. (i - 1) : s[j] # x) - 1

\* list(range(n))
RangeList(n) == [i \in 1 .. n |-> i - 1]

\* {global_rank: group_rank for group_rank, global_rank in enumerate(ranks)}:
\* a later occurrence of a rank overwrites an earlier one
RankMapOf(ranks) ==
  [g \in Elems(ranks) |->
     (CHOOSE i \in DOMAIN ranks : ranks[i] = g /\ \A j \in DOMAIN ranks : ranks[j] = g => j <= i) - 1]

\* the store contract: add(key, delta) is an atomic fetch-and-add that
\* returns the new value; a key never written reads as 0
StoreGet(st, key) == IF key \in DOMAIN st THEN st[key] ELSE 0
StoreAdd(st, key, delta) == Put(st, key, StoreGet(st, key) + delta)

VARIABLES
  WORLD,            \* [rank -> handle or None]          GroupMember.WORLD
  pg_map,           \* [rank -> [handle -> <<backend, store>>]]   _pg_map
  pg_names,         \* [rank -> [handle -> name]]                 _pg_names
  pg_group_ranks,   \* [rank -> [handle -> [global -> local]]]    _pg_group_ranks
  group_count,      \* [rank -> Nat]                              _group_count
  store,            \* [store id -> [key -> counter]]   the shared stores
  pgs,              \* [rank -> [handle -> transport object built by the rank]]
  frame,            \* [rank -> the call in progress (blocked in the barrier)]
  ret,              \* [rank -> outcome of the rank's last completed call]
  ncalls,           \* [rank -> number of API calls the rank has made]
  arrived,          \* [store id -> [key -> ranks that did store.add(key, 1)]]
  script,           \* the calls of a job whose ranks all run the same program
  out,              \* [rank -> outcome of the rank's last query or collective]
  attrs             \* [rank -> the attributes of the process's Backend class]

vars == << WORLD, pg_map, pg_names, pg_group_ranks, group_count, store, pgs,
           frame, ret, ncalls, arrived, script, out, attrs >>

\* ------------------------------------------------------ Backend(name)
\* function objects handed to register_backend
Funcs == {"<f1>", "<f2>"}

\* name.upper() on the backend names the model draws, each in three
\* spellings
Upper(name) ==
  CASE name \in {"gloo", "GLOO", "Gloo"} -> "GLOO"
    [] name \in {"nccl", "NCCL", "Nccl"} -> "NCCL"
    [] name \in {"mpi", "MPI", "Mpi"} -> "MPI"
    [] name \in {"tcp", "TCP", "Tcp"} -> "TCP"
    [] name \in {"hccl", "HCCL", "Hccl"} -> "HCCL"
    [] name \in {"undefined", "UNDEFINED", "Undefined"} -> "UNDEFINED"
    [] name \in {"dummy", "DUMMY", "Dummy"} -> "DUMMY"
    [] name \in {"foo", "FOO", "Foo"} -> "FOO"
    [] OTHER -> "?"

\* the attributes the class body of Backend defines
ClassAttrs ==
  [a \in {"UNDEFINED", "GLOO", "NCCL", "MPI", "TCP", "HCCL"} |->
     CASE a = "UNDEFINED" -> "undefined"
       [] a = "GLOO" -> "gloo"
       [] a = "NCCL" -> "nccl"
       [] a = "MPI" -> "mpi"
       [] a = "TCP" -> "tcp"
       [] a = "HCCL" -> "hccl"]

\* getattr(Backend, attr, Backend.UNDEFINED) in the process of rank r
BackendAttr(r, attr) ==
  IF attr \in DOMAIN attrs[r] THEN attrs[r][attr] ELSE attrs[r]["UNDEFINED"]

\* Backend.__new__ in the process of rank r: [err, value]; name is a
\* string or, when a caller passes on what an earlier Backend(...) gave,
\* a function object
Backend(r, name) ==
  IF name \in Funcs THEN [err |-> "BackendNameNotString", value |-> ""]
  ELSE
    LET value == BackendAttr(r, Upper(name))
    IN  IF value = attrs[r]["TCP"] THEN [err |-> "DeprecatedBackend", value |-> ""]
        ELSE IF value = attrs[r]["UNDEFINED"] THEN [err |-> "InvalidBackend", value |-> ""]
        ELSE IF value # attrs[r]["GLOO"] /\ value # attrs[r]["NCCL"] /\ value # attrs[r]["MPI"]
             THEN [err |-> "", value |-> name]
        ELSE [err |-> "", value |-> value]

\* ------------------------------------------------------ call frames
\* a rank is either idle or blocked inside _store_based_barrier at the end
\* of init_process_group / new_group; the frame holds the locals
IdleFrame ==
  [pc |-> "idle", op |-> "", key |-> "", st |-> 0, rank |-> 0, world_size |-> 0,
   worker_count |-> 0, expired |-> FALSE, pg |-> None, name |-> "", ctor |-> FALSE,
   ranks |-> << >>]

NoReport == [rank |-> 0, key |-> "", world_size |-> 0, worker_count |-> 0]

\* the locals of _new_process_group_helper that an outcome keeps: the group
\* name it used, the rank list it was given, whether a transport
\* constructor was invoked; key is the barrier's store_key ("" if none)
NoLocals == [name |-> "", ranks |-> << >>, ctor |-> FALSE, key |-> ""]

\* outcome of a completed call: err = "" is a normal return of `value`;
\* group is the handle the call was given (destroy), report the fields of
\* the barrier's timeout message
Outcome(op, err, value, group, loc, report) ==
  [op |-> op, err |-> err, value |-> value, group |-> group, name |-> loc.name,
   ranks |-> loc.ranks, ctor |-> loc.ctor, key |-> loc.key, report |-> report]

NoOutcome == Outcome("", "", None, None, NoLocals, NoReport)

\* outcome of a query, a point-to-point call or a collective.  fn and the
\* arguments group, rank (src / dst / peer, an optional integer), async
\* and given (a buffer list was passed) are kept with the result: err = ""
\* is a normal return of value, which is <<"none">>, <<"int", k>>,
\* <<"str", s>>, <<"work", i>> (the handle returned by the i-th transport
\* call) or <<"list", handles>>.  calls lists the transport capabilities
\* invoked, each [pg, method, root]; waits the handles wait() was called
\* on; lookups the reads _pg_group_ranks[group][rank]; copied says that
\* reduce wrote the caller's buffer; ops is the list batch_isend_irecv got
NoOut ==
  [fn |-> "", group |-> None, rank |-> NoInt, async |-> FALSE, given |-> FALSE,
   dtype |-> "real", op |-> "SUM", name |-> "",
   err |-> "", value |-> << "none" >>, calls |-> << >>, waits |-> << >>,
   lookups |-> << >>, copied |-> FALSE, ops |-> << >>]

\* a fresh transport object of rank r (object identity)
NewHandle(r) == "pg" \o Str(Cardinality(DOMAIN pgs[r]) + 1)

\* GroupMember.WORLD.rank() / .size() of the transport object
PgRank(r, pg) == pgs[r][pg].rank[1]
PgSize(r, pg) == pgs[r][pg].size

is_initialized(r) == WORLD[r] # None

\* --------------------------------------- _new_process_group_helper
\* The non-MPI path.  rank is an optional integer (new_group passes None
\* for a rank that is not listed); ctor_ok is the outcome of the external
\* transport constructor when it is handed None as the rank (with an
\* integer rank it returns the transport object).  Result: the error raised or the handle
\* returned, the new value of _group_count, and the registrations made.
\* faulty variant: a name is never taken for a duplicate
DuplicateNameUnchecked(r, name) == FALSE

\* faulty variant: the name is looked up among the handles, not among the names
IsDuplicateNameKeys(r, name) == name \in DOMAIN pg_names[r]

IsDuplicateName(r, name) == name \in Range(pg_names[r])

IsNonMember(r, group_ranks) ==
  /\ Len(group_ranks) # 0
  /\ PgRank(r, WORLD[r]) \notin Elems(group_ranks)

HelperName(r, group_name) ==
  IF group_name = "" THEN Str(group_count[r]) ELSE group_name

\* faulty variant: the counter advances only on the ranks that join the group
HelperCountMembersOnly(r, group_name, group_ranks) ==
  IF group_name = "" /\ ~IsNonMember(r, group_ranks)
  THEN group_count[r] + 1 ELSE group_count[r]

HelperCount(r, group_name, group_ranks) ==
  IF group_name = "" THEN group_count[r] + 1 ELSE group_count[r]

\* faulty variant: a registered factory is never looked up, the gloo
\* constructor makes every transport object
ConstructBuiltin(r, backend) ==
  [err |-> "", by |-> "ProcessGroupGloo", id |-> attrs[r]["GLOO"], timeout |-> TRUE]

\* the branch that makes the transport object: which constructor is
\* called (by), whether it is handed the timeout, and the backend
\* identifier registered with the handle (id)
Construct(r, backend) ==
  IF backend = attrs[r]["GLOO"]
    THEN [err |-> "", by |-> "ProcessGroupGloo", id |-> attrs[r]["GLOO"], timeout |-> TRUE]
  ELSE IF backend = attrs[r]["NCCL"]
    THEN [err |-> "", by |-> "ProcessGroupNCCL", id |-> attrs[r]["NCCL"], timeout |-> TRUE]
  ELSE IF backend = attrs[r]["HCCL"]
    THEN [err |-> "", by |-> "ProcessGroupHCCL", id |-> attrs[r]["HCCL"], timeout |-> FALSE]
  ELSE IF BackendAttr(r, Upper(backend)) \in Funcs
    THEN [err |-> "", by |-> BackendAttr(r, Upper(backend)), id |-> backend,
          timeout |-> TRUE]
  ELSE [err |-> "NotCallable", by |-> "", id |-> "", timeout |-> FALSE]

_new_process_group_helper(r, world_size, rank, group_ranks, backend, st, group_name, ctor_ok) ==
  LET name == HelperName(r, group_name)
      cnt  == HelperCount(r, group_name, group_ranks)
      pg   == NewHandle(r)
      base == [err |-> "", pg |-> None, count |-> cnt, name |-> name, ctor |-> FALSE,
               ranks |-> group_ranks, key |-> "",
               map |-> pg_map[r], names |-> pg_names[r], objs |-> pgs[r]]
  IN  IF IsDuplicateName(r, name)
        THEN [base EXCEPT !.err = "DuplicateGroupName"]
      ELSE IF Backend(r, backend).err # ""
        THEN [base EXCEPT !.err = Backend(r, backend).err]
      ELSE IF IsNonMember(r, group_ranks)
        THEN [base EXCEPT !.pg = NON_GROUP_MEMBER]
      ELSE IF Construct(r, Backend(r, backend).value).err # ""
        THEN [base EXCEPT !.err = Construct(r, Backend(r, backend).value).err]
      ELSE IF rank = NoInt /\ ~ctor_ok
        THEN [base EXCEPT !.err = "ConstructorError", !.ctor = TRUE]
      ELSE [base EXCEPT
              !.pg = pg, !.ctor = TRUE,
              !.objs = Put(pgs[r], pg,
                           [rank |-> rank, size |-> world_size,
                            backend |-> Construct(r, Backend(r, backend).value).id,
                            by |-> Construct(r, Backend(r, backend).value).by,
                            timeout |-> Construct(r, Backend(r, backend).value).timeout,
                            prefix |-> name, st |-> st]),
              !.map = Put(pg_map[r], pg,
                          << Construct(r, Backend(r, backend).value).id, st >>),
              !.names = Put(pg_names[r], pg, name)]

\* ---------------------------------------------------------------- Init
Init ==
  /\ WORLD = [r \in Ranks |-> None]
  /\ pg_map = [r \in Ranks |-> Empty]
  /\ pg_names = [r \in Ranks |-> Empty]
  /\ pg_group_ranks = [r \in Ranks |-> Empty]
  /\ group_count = [r \in Ranks |-> 0]
  /\ store = [s \in Stores |-> Empty]
  /\ pgs = [r \in Ranks |-> Empty]
  /\ frame = [r \in Ranks |-> IdleFrame]
  /\ ret = [r \in Ranks |-> NoOutcome]
  /\ out = [r \in Ranks |-> NoOut]
  /\ ncalls = [r \in Ranks |-> 0]
  /\ arrived = [s \in Stores |-> Empty]
  /\ script = << >>
  /\ attrs = [r \in Ranks |-> ClassAttrs]

\* an init / new_group / destroy call of rank r starts; out keeps what the
\* rank's last query or collective since then gave
Count(r) ==
  /\ ncalls' = [ncalls EXCEPT ![r] = @ + 1]
  /\ out' = [out EXCEPT ![r] = NoOut]
  /\ UNCHANGED attrs

\* faulty variant: the failing call has already taken a sequence number
RaiseCounted(r, op, group, err) ==
  /\ ret' = [ret EXCEPT ![r] = Outcome(op, err, None, group, NoLocals, NoReport)]
  /\ group_count' = [group_count EXCEPT ![r] = @ + 1]
  /\ UNCHANGED << WORLD, pg_map, pg_names, pg_group_ranks, store, pgs, frame, arrived >>

\* the call raises err before it touches any registry
Raise(r, op, group, err) ==
  /\ ret' = [ret EXCEPT ![r] = Outcome(op, err, None, group, NoLocals, NoReport)]
  /\ UNCHANGED << WORLD, pg_map, pg_names, pg_group_ranks, group_count, store, pgs,
                  frame, arrived >>

\* store_key = "{prefix}:{_group_count}"
StoreKey(count) == STORE_BASED_BARRIER_PREFIX \o ":" \o Str(count)

ArrivedAt(s, key) == IF key \in DOMAIN arrived[s] THEN arrived[s][key] ELSE {}

\* the call enters _store_based_barrier(rank, st, timeout) and checks in:
\* store.add(store_key, 1); world_size = get_world_size()
EnterBarrier(r, op, rank, st, pg, h, world_size) ==
  /\ store' = [store EXCEPT ![st] = StoreAdd(@, StoreKey(h.count), 1)]
  /\ arrived' = [arrived EXCEPT ![st] =
       Put(@, StoreKey(h.count), ArrivedAt(st, StoreKey(h.count)) \cup {r})]
  /\ frame' = [frame EXCEPT ![r] =
       [IdleFrame EXCEPT !.pc = "added", !.op = op, !.rank = rank, !.st = st,
                         !.key = StoreKey(h.count), !.world_size = world_size,
                         !.pg = pg, !.name = h.name, !.ctor = h.ctor,
                         !.ranks = h.ranks]]
  /\ ret' = [ret EXCEPT ![r] = NoOutcome]

\* ------------------------------------------------ init_process_group
\* init_process_group(backend, store=s, rank=r, world_size=NumRanks,
\*                    group_name=group_name), up to the barrier's check-in
\* faulty variant: the test for an existing default group is missing
InitTwiceUnchecked(r) == FALSE

\* if GroupMember.WORLD is not None: "trying to initialize ... twice!"
InitTwice(r) == WORLD[r] # None

\* faulty variant: no rank map is stored for the default group
WorldRanksUnstored(ranks, pg, size) == ranks

\* _pg_group_ranks[GroupMember.WORLD] = {i: i for i in range(size)}
WorldRanks(ranks, pg, size) == Put(ranks, pg, [i \in 0 .. (size - 1) |-> i])

init_process_group(r, backend, s, group_name) ==
  /\ frame[r].pc = "idle"
  /\ Count(r)
  /\ IF InitTwice(r)
       THEN Raise(r, "init", None, "AlreadyInitialized")
     ELSE IF Backend(r, backend).err # ""
       THEN Raise(r, "init", None, Backend(r, backend).err)
     ELSE
       LET h == _new_process_group_helper(r, NumRanks, Some(r), << >>,
                    Backend(r, backend).value, s, group_name, TRUE)
       IN  /\ group_count' = [group_count EXCEPT ![r] = h.count]
           /\ IF h.err # ""
                THEN /\ ret' = [ret EXCEPT ![r] =
                          Outcome("init", h.err, None, None, h, NoReport)]
                     /\ UNCHANGED << WORLD, pg_map, pg_names, pg_group_ranks, store, pgs,
                                     frame, arrived >>
                ELSE /\ WORLD' = [WORLD EXCEPT ![r] = h.pg]
                     /\ pg_map' = [pg_map EXCEPT ![r] = h.map]
                     /\ pg_names' = [pg_names EXCEPT ![r] = h.names]
                     /\ pgs' = [pgs EXCEPT ![r] = h.objs]
                     /\ pg_group_ranks' = [pg_group_ranks EXCEPT ![r] =
                          WorldRanks(@, h.pg, h.objs[h.pg].size)]
                     /\ EnterBarrier(r, "init", r, s, None, h, h.objs[h.pg].size)

\* ---------------------------------------------------------- new_group
\* new_group(ranks=ranks_arg, backend=backend_arg), up to the barrier's
\* check-in; ranks_arg is << >> for None and << list >> for a list,
\* backend_arg is "" when omitted
new_group(r, ranks_arg, backend_arg, ctor_ok) ==
  /\ frame[r].pc = "idle"
  /\ Count(r)
  /\ IF ~is_initialized(r)
       THEN Raise(r, "new_group", None, "NotInitialized")
     ELSE
       LET default_pg == WORLD[r]
           default_backend == pg_map[r][default_pg][1]
           default_store == pg_map[r][default_pg][2]
           global_rank == PgRank(r, default_pg)
           global_world_size == PgSize(r, default_pg)
           backend == IF backend_arg = "" THEN default_backend ELSE backend_arg
           ranks == IF ranks_arg = << >> THEN RangeList(global_world_size)
                    ELSE Sorted(ranks_arg[1])
           group_world_size == Len(ranks)
           group_rank == IF ranks_arg = << >> THEN Some(global_rank)
                         ELSE IF global_rank \in Elems(ranks)
                              THEN Some(Index(ranks, global_rank))
                         ELSE NoInt
       IN  IF ranks_arg # << >> /\ group_world_size > global_world_size
             THEN Raise(r, "new_group", None, "InvalidArgument")
           ELSE IF \E rank \in Elems(ranks) : rank < 0 \/ rank >= global_world_size
             THEN Raise(r, "new_group", None, "InvalidArgument")
           ELSE IF Backend(r, backend).err # ""
             THEN Raise(r, "new_group", None, Backend(r, backend).err)
           ELSE
             LET h == _new_process_group_helper(r, group_world_size, group_rank, ranks,
                          Backend(r, backend).value, default_store, "", ctor_ok)
             IN  /\ group_count' = [group_count EXCEPT ![r] = h.count]
                 /\ IF h.err # ""
                      THEN /\ ret' = [ret EXCEPT ![r] =
                                Outcome("new_group", h.err, None, None, h, NoReport)]
                           /\ UNCHANGED << WORLD, pg_map, pg_names, pg_group_ranks, store,
                                           pgs, frame, arrived >>
                      ELSE /\ pg_map' = [pg_map EXCEPT ![r] = h.map]
                           /\ pg_names' = [pg_names EXCEPT ![r] = h.names]
                           /\ pgs' = [pgs EXCEPT ![r] = h.objs]
                           /\ pg_group_ranks' = [pg_group_ranks EXCEPT ![r] =
                                Put(@, h.pg, RankMapOf(ranks))]
                           /\ EnterBarrier(r, "new_group", global_rank, default_store, h.pg,
                                           h, global_world_size)
                           /\ UNCHANGED WORLD

\* ---------------------------------------------- destroy_process_group
\* faulty variant: the counter survives the destruction of the world group
KeepCount(count) == count

\* _group_count = 0 when the world group is destroyed
ResetCount(count) == 0

\* destroy_process_group(group); group = None is the omitted argument
destroy_process_group(r, group) ==
  /\ frame[r].pc = "idle"
  /\ Count(r)
  /\ LET pg == IF group = None THEN WORLD[r] ELSE group
         done(err) == ret' = [ret EXCEPT ![r] =
                         Outcome("destroy", err, None, group, NoLocals, NoReport)]
     IN  IF group = NON_GROUP_MEMBER
           THEN /\ done("")
                /\ UNCHANGED << WORLD, pg_map, pg_names, pg_group_ranks, group_count >>
         ELSE IF pg = None
           THEN /\ done("AssertionError")
                /\ UNCHANGED << WORLD, pg_map, pg_names, pg_group_ranks, group_count >>
         ELSE IF pg \notin DOMAIN pg_map[r]
           THEN /\ done("UnknownGroup")
                /\ UNCHANGED << WORLD, pg_map, pg_names, pg_group_ranks, group_count >>
         ELSE IF group = None \/ group = WORLD[r]
           THEN /\ WORLD' = [WORLD EXCEPT ![r] = None]
                /\ pg_map' = [pg_map EXCEPT ![r] = Empty]
                /\ pg_names' = [pg_names EXCEPT ![r] = Empty]
                /\ pg_group_ranks' = [pg_group_ranks EXCEPT ![r] = Empty]
                /\ group_count' = [group_count EXCEPT ![r] = ResetCount(@)]
                /\ done("")
         ELSE /\ pg_map' = [pg_map EXCEPT ![r] = Del(@, pg)]
              /\ pg_names' = [pg_names EXCEPT ![r] = Del(@, pg)]
              /\ IF pg \in DOMAIN pg_group_ranks[r]
                   THEN /\ pg_group_ranks' = [pg_group_ranks EXCEPT ![r] = Del(@, pg)]
                        /\ done("")
                   ELSE /\ UNCHANGED pg_group_ranks
                        /\ done("KeyError")
              /\ UNCHANGED << WORLD, group_count >>
  /\ UNCHANGED << store, pgs, frame, arrived >>

\* ------------------------------------------------ _store_based_barrier
\* worker_count = store.add(store_key, 0); start = time.time()
BarrierFirstRead(r) ==
  /\ frame[r].pc = "added"
  /\ frame' = [frame EXCEPT ![r].pc = "loop",
                            ![r].worker_count = StoreGet(store[frame[r].st], frame[r].key)]
  /\ UNCHANGED << WORLD, pg_map, pg_names, pg_group_ranks, group_count, store, pgs, ret,
                  ncalls, arrived, script, out, attrs >>

\* the caller's timeout elapses while the rank is in the loop
TimerExpire(r) ==
  /\ frame[r].pc = "loop"
  /\ ~frame[r].expired
  /\ frame' = [frame EXCEPT ![r].expired = TRUE]
  /\ UNCHANGED << WORLD, pg_map, pg_names, pg_group_ranks, group_count, store, pgs, ret,
                  ncalls, arrived, script, out, attrs >>

\* the loop test `while worker_count != world_size` is false
LoopExits(worker_count, world_size) == worker_count = world_size

\* faulty variant: the message carries the count read one iteration earlier
TimeoutReportStale(f, worker_count) ==
  [rank |-> f.rank, key |-> f.key, world_size |-> f.world_size,
   worker_count |-> f.worker_count]

\* the fields of the timeout message, raised after the re-read
TimeoutReport(f, worker_count) ==
  [rank |-> f.rank, key |-> f.key, world_size |-> f.world_size,
   worker_count |-> worker_count]

\* the loop is left: the barrier returns, and so does the caller
\* (init_process_group returns None, new_group returns pg)
BarrierReturn(r) ==
  /\ frame[r].pc = "loop"
  /\ LoopExits(frame[r].worker_count, frame[r].world_size)
  /\ ret' = [ret EXCEPT ![r] =
       Outcome(frame[r].op, "", frame[r].pg, None, frame[r], NoReport)]
  /\ frame' = [frame EXCEPT ![r] = IdleFrame]
  /\ UNCHANGED << WORLD, pg_map, pg_names, pg_group_ranks, group_count, store, pgs,
                  ncalls, arrived, script, out, attrs >>

\* one iteration of the loop body: sleep, re-read the counter, then raise
\* if the timeout has elapsed
BarrierPoll(r) ==
  /\ frame[r].pc = "loop"
  /\ ~LoopExits(frame[r].worker_count, frame[r].world_size)
  /\ LET worker_count == StoreGet(store[frame[r].st], frame[r].key)
     IN  IF frame[r].expired
           THEN /\ ret' = [ret EXCEPT ![r] =
                     Outcome(frame[r].op, "BarrierTimeout", None, None, frame[r],
                             TimeoutReport(frame[r], worker_count))]
                /\ frame' = [frame EXCEPT ![r] = IdleFrame]
           ELSE /\ frame' = [frame EXCEPT ![r].worker_count = worker_count]
                /\ UNCHANGED ret
  /\ UNCHANGED << WORLD, pg_map, pg_names, pg_group_ranks, group_count, store, pgs,
                  ncalls, arrived, script, out, attrs >>

\* =================================================================
\* Queries, point-to-point calls and collectives
\* =================================================================
\* Arguments are well-typed (tensors are tensors, lists are lists).  A
\* call is a record c: fn, group (None when omitted), rank (the src / dst
\* / peer argument, NoInt when there is none or it is None), async (the
\* async_op flag), given (a non-empty gather_list / scatter_list was
\* passed), from (the sender the transport reports to recv from any source)
OutOf(c) ==
  [NoOut EXCEPT !.fn = c.fn, !.group = c.group, !.rank = c.rank,
                !.async = c.async, !.given = c.given,
                !.dtype = c.dtype, !.op = c.op]

\* raise err
Fail(o, err) == [o EXCEPT !.err = err]

\* return value
Return(o, value) == [o EXCEPT !.value = value]

\* pg.method(..., root, ...): the capability of the transport object pg is
\* invoked; list says whether the caller's buffer list was handed over
Invoke(o, pg, method, root, list) ==
  [o EXCEPT !.calls = Append(@, [pg |-> pg, method |-> method, root |-> root,
                                 list |-> list, buf |-> "tensor"])]

\* the same call handed the scratch copy `tensor_tmp = tensor.clone()`
\* instead of the caller's buffer
InvokeOnCopy(o, pg, method) ==
  [o EXCEPT !.calls = Append(@, [pg |-> pg, method |-> method, root |-> NoInt,
                                 list |-> FALSE, buf |-> "tensor_tmp"])]

\* the same call handed torch.view_as_real(tensor), the real-valued
\* reinterpretation of a complex buffer
InvokeOnView(o, pg, method) ==
  [o EXCEPT !.calls = Append(@, [pg |-> pg, method |-> method, root |-> NoInt,
                                 list |-> FALSE, buf |-> "view_as_real(tensor)"])]

\* the work handle the last transport call returned
LastWork(o) == Len(o.calls)

\* work.wait()
Wait(o, work) == [o EXCEPT !.waits = Append(@, work)]

\* faulty variant: a synchronous call returns without waiting
FinishNoWait(o, async) == IF async THEN Return(o, << "work", LastWork(o) >>) ELSE o

\* if async_op: return work / else: work.wait()
Finish(o, async) ==
  IF async THEN Return(o, << "work", LastWork(o) >>) ELSE Wait(o, LastWork(o))

\* faulty variant: the sentinel is taken for a group like any other
RankAlwaysInGroup(group) == FALSE

_rank_not_in_group(group) ==
  IF group = None THEN FALSE ELSE group = NON_GROUP_MEMBER

\* _get_default_group(): [err, value]
_get_default_group(r) ==
  IF ~is_initialized(r) THEN [err |-> "NotInitialized", value |-> None]
  ELSE [err |-> "", value |-> WORLD[r]]

\* faulty variant: the global rank is used as the group-local rank
GroupRankIdentity(map, rank) == rank

\* _pg_group_ranks[group][rank]
GroupRankIn(map, rank) == map[rank]

\* faulty variant: a rank outside the group is given group rank 0
GroupRankOrZero(r, group, rank) ==
  IF group = WORLD[r]
    THEN [err |-> "NoRankMapping", value |-> 0, looked |-> FALSE]
  ELSE IF group \notin DOMAIN pg_group_ranks[r]
    THEN [err |-> "UnknownGroup", value |-> 0, looked |-> FALSE]
  ELSE IF rank \notin DOMAIN pg_group_ranks[r][group]
    THEN [err |-> "", value |-> 0, looked |-> TRUE]
  ELSE [err |-> "", value |-> pg_group_ranks[r][group][rank], looked |-> TRUE]

\* _get_group_rank(group, rank): [err, value, looked]; looked says that the
\* rank map of the group was read
_get_group_rank(r, group, rank) ==
  IF group = WORLD[r]
    THEN [err |-> "NoRankMapping", value |-> 0, looked |-> FALSE]
  ELSE IF group \notin DOMAIN pg_group_ranks[r]
    THEN [err |-> "UnknownGroup", value |-> 0, looked |-> FALSE]
  ELSE IF rank \notin DOMAIN pg_group_ranks[r][group]
    THEN [err |-> "RankNotInGroup", value |-> 0, looked |-> TRUE]
  ELSE [err |-> "", value |-> GroupRankIn(pg_group_ranks[r][group], rank),
        looked |-> TRUE]

\* faulty variant: the group rank is returned as the global rank
GlobalRankIdentity(r, group, group_rank) == [err |-> "", value |-> group_rank]

\* _get_global_rank(group, group_rank): [err, value]; the loop returns the
\* first key of the map, in insertion order (ascending global rank), whose
\* value is group_rank
_get_global_rank(r, group, group_rank) ==
  IF group = WORLD[r] THEN [err |-> "NoRankMapping", value |-> 0]
  ELSE IF group \notin DOMAIN pg_group_ranks[r] THEN [err |-> "KeyError", value |-> 0]
  ELSE LET map == pg_group_ranks[r][group]
           hits == { rank \in DOMAIN map : map[rank] = group_rank }
       IN  IF hits = {} THEN [err |-> "GroupRankNotInGroup", value |-> 0]
           ELSE [err |-> "",
                 value |-> CHOOSE rank \in hits : \A x \in hits : rank <= x]

\* _get_group_size(group): [err, value]
_get_group_size(r, group) ==
  IF group = WORLD[r] \/ group = None
    THEN IF _get_default_group(r).err # ""
           THEN [err |-> _get_default_group(r).err, value |-> 0]
         ELSE [err |-> "", value |-> PgSize(r, WORLD[r])]
  ELSE IF group \notin DOMAIN pg_group_ranks[r]
    THEN [err |-> "UnknownGroup", value |-> 0]
  ELSE [err |-> "", value |-> Cardinality(DOMAIN pg_group_ranks[r][group])]

\* the rank map of a group was read with this global rank
Looked(o, g, group, rank) ==
  IF g.looked THEN [o EXCEPT !.lookups = Append(@, << group, rank >>)] ELSE o

\* get_rank(group): [err, value, looked]
get_rank(r, group) ==
  IF _rank_not_in_group(group)
    THEN [err |-> "", value |-> -1, looked |-> FALSE]
  ELSE IF _get_default_group(r).err # ""
    THEN [err |-> _get_default_group(r).err, value |-> 0, looked |-> FALSE]
  ELSE IF group = None \/ group = WORLD[r]
    THEN [err |-> "", value |-> PgRank(r, WORLD[r]), looked |-> FALSE]
  ELSE _get_group_rank(r, group, PgRank(r, WORLD[r]))

\* get_world_size(group): [err, value]
get_world_size(r, group) ==
  IF _rank_not_in_group(group) THEN [err |-> "", value |-> -1]
  ELSE _get_group_size(r, group)

\* get_backend(group): [err, value]
get_backend(r, group) ==
  IF group = None /\ _get_default_group(r).err # ""
    THEN [err |-> _get_default_group(r).err, value |-> ""]
  ELSE LET pg == IF group = None THEN WORLD[r] ELSE group
       IN  IF _rank_not_in_group(pg) THEN [err |-> "UnknownGroup", value |-> ""]
           ELSE IF pg \notin DOMAIN pg_map[r]
             THEN [err |-> "AssertionError", value |-> ""]
           ELSE [err |-> "", value |-> pg_map[r][pg][1]]

\* the three queries as calls
Query(r, c) ==
  LET o == OutOf(c)
      q == CASE c.fn = "get_rank" -> get_rank(r, c.group)
             [] c.fn = "get_world_size" -> get_world_size(r, c.group)
      b == get_backend(r, c.group)
  IN  IF c.fn = "get_backend"
        THEN IF b.err # "" THEN Fail(o, b.err) ELSE Return(o, << "str", b.value >>)
      ELSE IF c.fn = "get_rank"
        THEN IF q.err # "" THEN Fail(Looked(o, q, c.group, PgRank(r, WORLD[r])), q.err)
             ELSE Return(Looked(o, q, c.group, PgRank(r, WORLD[r])), << "int", q.value >>)
      ELSE IF q.err # "" THEN Fail(o, q.err) ELSE Return(o, << "int", q.value >>)

\* the transport capability each collective without a root invokes
Method(fn) ==
  CASE fn = "all_reduce" -> "allreduce"
    [] fn = "all_reduce_coalesced" -> "allreduce_coalesced"
    [] fn = "all_gather" -> "allgather"
    [] fn = "all_gather_coalesced" -> "allgather_coalesced"
    [] fn = "reduce_scatter" -> "reduce_scatter"
    [] fn = "all_to_all_single" -> "alltoall_base"
    [] fn = "all_to_all" -> "alltoall"
    [] fn = "barrier" -> "barrier"

\* the reduction kinds, and the ones supports_complex denies
ReduceOps == {"SUM", "PRODUCT", "MIN", "MAX", "BAND", "BOR", "BXOR"}

supports_complex(reduceOp) ==
  reduceOp \notin {"MAX", "MIN", "PRODUCT", "BAND", "BOR", "BXOR"}

\* the functions that test supports_complex(op) on a complex buffer
ComplexCheckedFns == {"all_reduce", "all_reduce_coalesced"}

\* the functions that replace a complex buffer by torch.view_as_real of it
ViewAsRealFns ==
  {"all_reduce", "all_reduce_coalesced", "all_gather", "all_gather_coalesced"}

\* pg.method(...) on the caller's buffer, or on its real view where the
\* function took one
InvokeUnrooted(o, pg, c) ==
  IF c.dtype = "complex" /\ c.fn \in ViewAsRealFns
    THEN InvokeOnView(o, pg, Method(c.fn))
  ELSE Invoke(o, pg, Method(c.fn), NoInt, FALSE)

\* all_reduce, all_reduce_coalesced, all_gather, all_gather_coalesced,
\* reduce_scatter, all_to_all_single, all_to_all, barrier(device_ids=None):
\* `if group is None: default_pg = _get_default_group() ... else: group...`
Unrooted(r, c) ==
  LET o == OutOf(c)
  IN  IF _rank_not_in_group(c.group) THEN o
      ELSE IF c.fn \in ComplexCheckedFns /\ c.dtype = "complex"
                /\ ~supports_complex(c.op)
        THEN Fail(o, "UnsupportedReduceOnComplex")
      ELSE IF c.group = None
        THEN IF _get_default_group(r).err # ""
               THEN Fail(o, _get_default_group(r).err)
             ELSE Finish(InvokeUnrooted(o, WORLD[r], c), c.async)
      ELSE Finish(InvokeUnrooted(o, c.group, c), c.async)

\* the branch `if group is None or group is GroupMember.WORLD`
OnDefaultGroup(r, group) == group = None \/ group = WORLD[r]

\* the default-group branch and the subgroup branch of a call that hands
\* a root or a peer to the transport, after which `rest` is applied
Routed(r, o, group, rank, method, list, async) ==
  IF OnDefaultGroup(r, group)
    THEN IF _get_default_group(r).err # ""
           THEN Fail(o, _get_default_group(r).err)
         ELSE Finish(Invoke(o, WORLD[r], method, Some(rank), list), async)
  ELSE LET g == _get_group_rank(r, group, rank)
           l == Looked(o, g, group, rank)
       IN  IF g.err # "" THEN Fail(l, g.err)
           ELSE Finish(Invoke(l, group, method, Some(g.value), list), async)

\* broadcast(tensor, src, group, async_op)
broadcast(r, c) ==
  IF _rank_not_in_group(c.group) THEN OutOf(c)
  ELSE Routed(r, OutOf(c), c.group, c.rank[1], "broadcast", FALSE, c.async)

\* faulty variant: the list argument is not validated
ListUnchecked(my_rank, root, given) == TRUE

\* _validate_output_list_for_rank(my_rank, dst, gather_list) and the same
\* test on scatter_list in scatter: TRUE when the call is accepted
ListAccepted(my_rank, root, given) ==
  IF root = my_rank THEN given ELSE ~given

\* gather(tensor, gather_list, dst, group, async_op) and
\* scatter(tensor, scatter_list, src, group, async_op)
gather_scatter(r, c) ==
  LET o == OutOf(c)
      my_rank == get_rank(r, None)
  IN  IF _rank_not_in_group(c.group) THEN o
      ELSE IF my_rank.err # "" THEN Fail(o, my_rank.err)
      ELSE IF ~ListAccepted(my_rank.value, c.rank[1], c.given)
        THEN Fail(o, "InvalidArgument")
      ELSE Routed(r, o, c.group, c.rank[1], c.fn, c.rank[1] = my_rank.value, c.async)

\* faulty variant: every rank keeps the result
CopyBackAlways(current_rank, group_dst_rank) == TRUE

\* if current_rank == group_dst_rank: tensor.copy_(tensor_tmp)
CopyBack(current_rank, group_dst_rank) == current_rank = group_dst_rank

\* faulty variant: the async flag is let through
AsyncAllowed(async) == FALSE

\* if async_op: raise RuntimeError("... not support async")
AsyncRefused(async) == async

\* reduce(tensor, dst, group, op, async_op): an all-reduce into a copy of
\* the buffer, copied back on the destination rank
reduce(r, c) ==
  LET o == OutOf(c)
      dst == c.rank[1]
  IN  IF AsyncRefused(c.async) THEN Fail(o, "UnsupportedAsync")
      ELSE IF _rank_not_in_group(c.group) THEN o
      ELSE IF OnDefaultGroup(r, c.group)
        THEN IF _get_default_group(r).err # ""
               THEN Fail(o, _get_default_group(r).err)
             ELSE LET current_rank == get_rank(r, None)
                      w == Wait(InvokeOnCopy(o, WORLD[r], "allreduce"), 1)
                  IN  [w EXCEPT !.copied = CopyBack(current_rank.value, dst)]
      ELSE LET g == _get_group_rank(r, c.group, dst)
               l == Looked(o, g, c.group, dst)
               current_rank == get_rank(r, c.group)
               m == Looked(l, current_rank, c.group, PgRank(r, WORLD[r]))
           IN  IF g.err # "" THEN Fail(l, g.err)
               ELSE IF current_rank.err # "" THEN Fail(m, current_rank.err)
               ELSE LET w == Wait(InvokeOnCopy(m, c.group, "allreduce"), 1)
                    IN  [w EXCEPT !.copied = CopyBack(current_rank.value, g.value)]

\* isend(tensor, dst, group, tag) and send(tensor, dst, group, tag)
isend_send(r, c) ==
  IF _rank_not_in_group(c.group) THEN OutOf(c)
  ELSE Routed(r, OutOf(c), c.group, c.rank[1], "send", FALSE, c.fn = "isend")

\* irecv(tensor, src, group, tag)
irecv(r, c) ==
  LET o == OutOf(c)
      pg == IF OnDefaultGroup(r, c.group) THEN WORLD[r] ELSE c.group
  IN  IF _rank_not_in_group(c.group) THEN o
      ELSE IF OnDefaultGroup(r, c.group) /\ _get_default_group(r).err # ""
        THEN Fail(o, _get_default_group(r).err)
      ELSE IF c.rank = NoInt
        THEN Finish(Invoke(o, pg, "recv_anysource", NoInt, FALSE), TRUE)
      ELSE Routed(r, o, pg, c.rank[1], "recv", FALSE, TRUE)

\* recv(tensor, src, group, tag); returns the sender's global rank
recv(r, c) ==
  LET o == OutOf(c)
      pg == IF c.group = None THEN WORLD[r] ELSE c.group
  IN  IF _rank_not_in_group(c.group) THEN Return(o, << "int", -1 >>)
      ELSE IF c.group = None /\ _get_default_group(r).err # ""
        THEN Fail(o, _get_default_group(r).err)
      ELSE IF c.rank = NoInt
        THEN LET w == Wait(Invoke(o, pg, "recv_anysource", NoInt, FALSE), 1)
                 src_rank == c.from
                 g == _get_global_rank(r, pg, src_rank)
             IN  IF OnDefaultGroup(r, c.group) THEN Return(w, << "int", src_rank >>)
                 ELSE IF g.err # "" THEN Fail(w, g.err)
                 ELSE Return(w, << "int", g.value >>)
      ELSE LET d == Routed(r, o, c.group, c.rank[1], "recv", FALSE, FALSE)
           IN  IF d.err # "" THEN d ELSE Return(d, << "int", c.rank[1] >>)

\* --------------------------------------------------- batch_isend_irecv
\* a P2POp is a record [op, peer, group], op being "isend" or "irecv"
\* _check_p2p_op_list: the backend of the first operation's group, then
\* all(backend == get_backend(p2p_op.group) ...), left to right
\* faulty variant: the backends of the batch are not compared
SameBackendUnchecked(r, backend, ops, i) == ""

RECURSIVE SameBackend(_, _, _, _)
SameBackend(r, backend, ops, i) ==
  IF i > Len(ops) THEN ""
  ELSE IF get_backend(r, ops[i].group).err # "" THEN get_backend(r, ops[i].group).err
  ELSE IF get_backend(r, ops[i].group).value # backend THEN "MixedBackendBatch"
  ELSE SameBackend(r, backend, ops, i + 1)

\* the error _check_p2p_op_list raises, "" when it returns
_check_p2p_op_list(r, ops) ==
  IF ops = << >> THEN "IndexError"
  ELSE IF get_backend(r, ops[1].group).err # "" THEN get_backend(r, ops[1].group).err
  ELSE SameBackend(r, get_backend(r, ops[1].group).value, ops, 1)

\* faulty variant: the region is entered and never left
RegionNeverLeft(o, backend, method) ==
  IF backend = "nccl" /\ method = "_group_start"
    THEN Invoke(o, None, method, NoInt, FALSE) ELSE o

\* ProcessGroupNCCL._group_start() / _group_end() of _batch_p2p_manager
Region(o, backend, method) ==
  IF backend = "nccl" THEN Invoke(o, None, method, NoInt, FALSE) ELSE o

\* op(tensor, peer, curr_group, tag) on the outcome so far
Issue(r, o, p) ==
  IF _rank_not_in_group(p.group) THEN Return(o, << "none" >>)
  ELSE IF p.op = "isend" THEN Routed(r, o, p.group, p.peer, "send", FALSE, TRUE)
  ELSE IF OnDefaultGroup(r, p.group) /\ _get_default_group(r).err # ""
    THEN Fail(o, _get_default_group(r).err)
  ELSE Routed(r, o, IF OnDefaultGroup(r, p.group) THEN WORLD[r] ELSE p.group,
              p.peer, "recv", FALSE, TRUE)

\* faulty variant: each new handle is put in front of the earlier ones
RECURSIVE BatchLoopPrepend(_, _, _, _, _, _)
BatchLoopPrepend(r, o, backend, ops, i, reqs) ==
  IF i > Len(ops) THEN Return(Region(o, backend, "_group_end"), << "list", reqs >>)
  ELSE LET d == Issue(r, o, ops[i])
       IN  IF d.err # "" THEN Region(d, backend, "_group_end")
           ELSE BatchLoopPrepend(r, Return(d, << "none" >>), backend, ops, i + 1,
                                 IF d.value = << "none" >> THEN reqs
                                 ELSE << d.value[2] >> \o reqs)

\* the loop over the batch inside the region; a failing operation leaves
\* the region through its `finally`
RECURSIVE BatchLoop(_, _, _, _, _, _)
BatchLoop(r, o, backend, ops, i, reqs) ==
  IF i > Len(ops) THEN Return(Region(o, backend, "_group_end"), << "list", reqs >>)
  ELSE LET d == Issue(r, o, ops[i])
       IN  IF d.err # "" THEN Region(d, backend, "_group_end")
           ELSE BatchLoop(r, Return(d, << "none" >>), backend, ops, i + 1,
                          IF d.value = << "none" >> THEN reqs
                          ELSE Append(reqs, d.value[2]))

batch_isend_irecv(r, c) ==
  LET o == [OutOf(c) EXCEPT !.ops = c.ops]
      backend == get_backend(r, c.ops[1].group).value
  IN  IF _check_p2p_op_list(r, c.ops) # "" THEN Fail(o, _check_p2p_op_list(r, c.ops))
      ELSE BatchLoop(r, Region(o, backend, "_group_start"), backend, c.ops, 1, << >>)

\* ------------------------------------------------ the call as a step
UnrootedFns ==
  {"all_reduce", "all_reduce_coalesced", "all_gather", "all_gather_coalesced",
   "reduce_scatter", "all_to_all_single", "all_to_all", "barrier"}
QueryFns == {"get_rank", "get_world_size", "get_backend"}

\* the outcome of call c on rank r
Apply(r, c) ==
  CASE c.fn \in QueryFns -> Query(r, c)
    [] c.fn \in UnrootedFns -> Unrooted(r, c)
    [] c.fn = "broadcast" -> broadcast(r, c)
    [] c.fn \in {"gather", "scatter"} -> gather_scatter(r, c)
    [] c.fn = "reduce" -> reduce(r, c)
    [] c.fn \in {"isend", "send"} -> isend_send(r, c)
    [] c.fn = "irecv" -> irecv(r, c)
    [] c.fn = "recv" -> recv(r, c)
    [] c.fn = "batch_isend_irecv" -> batch_isend_irecv(r, c)

\* rank r, not inside a call, makes call c; no call of this layer writes
\* the module's state
Op(r, c) ==
  /\ frame[r].pc = "idle"
  /\ out' = [out EXCEPT ![r] = Apply(r, c)]
  /\ UNCHANGED << WORLD, pg_map, pg_names, pg_group_ranks, group_count, store, pgs,
                  frame, ret, ncalls, arrived, script, attrs >>

\* ------------------------------------------------------------ inputs
BackendArgs == {"gloo"}
GroupNameArgs == {"", "1"}

\* rank values a caller lists: every rank, and one value out of range
RankArgs == 0 .. NumRanks

RECURSIVE SeqsUpTo(_, _)
SeqsUpTo(S, n) ==
  IF n = 0 THEN { << >> }
  ELSE LET shorter == SeqsUpTo(S, n - 1)
       IN  shorter \cup { Append(q, x) : q \in { p \in shorter : Len(p) = n - 1 }, x \in S }

\* ranks=None, or a list
RanksArgs == { << >> } \cup { << l >> : l \in SeqsUpTo(RankArgs, MaxListLen) }

\* the external constructor's outcome is open only when it is given no rank
CtorOutcomes(l) == IF l = << << >> >> THEN BOOLEAN ELSE {TRUE}

\* a handle the rank can hold: None (argument omitted), the sentinel, or
\* any transport object it has ever been returned
GroupArgs(r) == {None, NON_GROUP_MEMBER} \cup DOMAIN pgs[r]

NumCalls == LET RECURSIVE Sum(_)
                Sum(S) == IF S = {} THEN 0
                          ELSE LET x == CHOOSE y \in S : TRUE
                               IN  ncalls[x] + Sum(S \ {x})
            IN  Sum(Ranks)

\* ------------------------------------------------- the job of NumRanks
\* every rank runs the program; the callers create the world group and
\* the groups None (all ranks) and [0], and destroy any group they hold
JobRanksArgs == { << >>, << << 0 >> >> }

Next ==
  \/ /\ NumCalls < MaxCalls
     /\ \E r \in Ranks, s \in Stores : init_process_group(r, "gloo", s, "")
     /\ UNCHANGED script
  \/ /\ NumCalls < MaxCalls
     /\ \E r \in Ranks, l \in JobRanksArgs : new_group(r, l, "", TRUE)
     /\ UNCHANGED script
  \/ /\ NumCalls < MaxCalls
     /\ \E r \in Ranks : \E g \in GroupArgs(r) : destroy_process_group(r, g)
     /\ UNCHANGED script
  \/ \E r \in Ranks : BarrierFirstRead(r)
  \/ \E r \in Ranks : TimerExpire(r)
  \/ \E r \in Ranks : BarrierReturn(r)
  \/ \E r \in Ranks : BarrierPoll(r)

Spec == Init /\ [][Next]_vars

\* ------------------------------------------------------ one process
\* one rank runs the program with every input; its peers only check in at
\* the barrier it is waiting in (their store.add(store_key, 1)), all of
\* them between two reads of the rank
Untouched(q) == ncalls[q] = 0

\* the store object the followed process hands to init_process_group
LocalStore == CHOOSE s \in Stores : \A t \in Stores : s <= t

Alone(r) == \A q \in Ranks \ {r} : Untouched(q)

PeersAdd(r) ==
  /\ frame[r].pc \in {"added", "loop"}
  /\ ArrivedAt(frame[r].st, frame[r].key) = {r}
  /\ store' = [store EXCEPT ![frame[r].st] =
       StoreAdd(@, frame[r].key, Cardinality(Ranks \ {r}))]
  /\ arrived' = [arrived EXCEPT ![frame[r].st] = Put(@, frame[r].key, Ranks)]
  /\ UNCHANGED << WORLD, pg_map, pg_names, pg_group_ranks, group_count, pgs, frame, ret,
                  ncalls, script, out, attrs >>

NextLocal ==
  \/ /\ NumCalls < MaxLocalCalls
     /\ \E r \in Ranks, b \in BackendArgs, n \in GroupNameArgs :
           Alone(r) /\ init_process_group(r, b, LocalStore, n)
     /\ UNCHANGED script
  \/ /\ NumCalls < MaxLocalCalls
     /\ \E r \in Ranks, l \in RanksArgs :
           \E ok \in CtorOutcomes(l) : Alone(r) /\ new_group(r, l, "", ok)
     /\ UNCHANGED script
  \/ /\ NumCalls < MaxLocalCalls
     /\ \E r \in Ranks : \E g \in GroupArgs(r) : Alone(r) /\ destroy_process_group(r, g)
     /\ UNCHANGED script
  \/ \E r \in Ranks : PeersAdd(r)
  \/ \E r \in Ranks : BarrierFirstRead(r)
  \/ \E r \in Ranks : TimerExpire(r)
  \/ \E r \in Ranks : BarrierReturn(r)
  \/ \E r \in Ranks : BarrierPoll(r)

SpecLocal == Init /\ [][NextLocal]_vars

\* ------------------------------------- every rank runs the same program
\* the ranks run one program, call by call, each at its own pace: a rank
\* either repeats the next call of the script or, when it is the first to
\* get there, makes a new call, which the others will repeat
ScriptCalls ==
  { [op |-> "init", st |-> s, name |-> n, ranks |-> << >>] :
       s \in Stores, n \in GroupNameArgs }
  \cup { [op |-> "new_group", st |-> 0, name |-> "", ranks |-> l] : l \in JobRanksArgs }
  \cup { [op |-> "destroy", st |-> 0, name |-> "", ranks |-> << >>] }

Run(r, c) ==
  \/ c.op = "init" /\ init_process_group(r, "gloo", c.st, c.name)
  \/ c.op = "new_group" /\ new_group(r, c.ranks, "", TRUE)
  \/ c.op = "destroy" /\ destroy_process_group(r, None)

Replay(r) ==
  /\ ncalls[r] < Len(script)
  /\ Run(r, script[ncalls[r] + 1])
  /\ UNCHANGED script

Extend(r) ==
  /\ ncalls[r] = Len(script)
  /\ Len(script) < MaxScript
  /\ \E c \in ScriptCalls : Run(r, c) /\ script' = Append(script, c)

NextSync ==
  \/ \E r \in Ranks : Replay(r)
  \/ \E r \in Ranks : Extend(r)
  \/ \E r \in Ranks : BarrierFirstRead(r)
  \/ \E r \in Ranks : TimerExpire(r)
  \/ \E r \in Ranks : BarrierReturn(r)
  \/ \E r \in Ranks : BarrierPoll(r)

SpecSync == Init /\ [][NextSync]_vars

\* ------------------------------------------- no timeout ever elapses
\* the job creates and destroys the world group; the callers' timeouts
\* never elapse, and a rank inside the barrier keeps running its loop
NextLive ==
  \/ /\ NumCalls < MaxLiveCalls
     /\ \E r \in Ranks, s \in Stores : init_process_group(r, "gloo", s, "")
     /\ UNCHANGED script
  \/ /\ NumCalls < MaxLiveCalls
     /\ \E r \in Ranks : destroy_process_group(r, None)
     /\ UNCHANGED script
  \/ \E r \in Ranks : BarrierFirstRead(r)
  \/ \E r \in Ranks : BarrierReturn(r)
  \/ \E r \in Ranks : BarrierPoll(r)

SpecLive ==
  /\ Init
  /\ [][NextLive]_vars
  /\ \A r \in Ranks : WF_vars(BarrierFirstRead(r))
  /\ \A r \in Ranks : WF_vars(BarrierReturn(r))
  /\ \A r \in Ranks : WF_vars(BarrierPoll(r))

\* ------------------------------- one process, queries and collectives
\* one rank makes up to MaxOpCalls init / new_group / destroy calls, its
\* peers checking in at its barriers, and between them any query,
\* point-to-point call or collective on any group value it can hold
PlainCall(fn, group) ==
  [fn |-> fn, group |-> group, rank |-> NoInt, async |-> FALSE, given |-> FALSE,
   dtype |-> "real", op |-> "SUM", from |-> 0, ops |-> << >>]

QueryCalls(r) == { PlainCall(fn, g) : fn \in QueryFns, g \in GroupArgs(r) }

UnrootedCalls(r) ==
  { [PlainCall(fn, g) EXCEPT !.async = a] :
       fn \in UnrootedFns, g \in GroupArgs(r), a \in BOOLEAN }

RootedCalls(r) ==
  { [PlainCall(fn, g) EXCEPT !.rank = Some(k), !.async = a] :
       fn \in {"broadcast", "reduce"}, g \in GroupArgs(r), k \in RankArgs, a \in BOOLEAN }
  \cup
  { [PlainCall(fn, g) EXCEPT !.rank = Some(k), !.async = a, !.given = l] :
       fn \in {"gather", "scatter"}, g \in GroupArgs(r), k \in RankArgs,
       a \in BOOLEAN, l \in BOOLEAN }

P2PCalls(r) ==
  { [PlainCall(fn, g) EXCEPT !.rank = Some(k)] :
       fn \in {"isend", "send", "irecv", "recv"}, g \in GroupArgs(r), k \in RankArgs }
  \cup { PlainCall("irecv", g) : g \in GroupArgs(r) }
  \cup { [PlainCall("recv", g) EXCEPT !.from = k] : g \in GroupArgs(r), k \in Ranks }

\* the reduction-bearing calls on a complex buffer, with every reduction
\* kind (the calls above are on real buffers, with SUM)
ReductionFns == {"all_reduce", "all_reduce_coalesced", "reduce", "reduce_scatter"}

ReductionCalls(r) ==
  { [PlainCall(fn, g) EXCEPT !.dtype = "complex", !.op = op,
                             !.rank = IF fn = "reduce" THEN Some(0) ELSE NoInt] :
       fn \in ReductionFns, g \in GroupArgs(r), op \in ReduceOps }

\* the operations of a batch: to and from the next rank, on any group
P2POps(r) ==
  { [op |-> op, peer |-> (r + 1) % NumRanks, group |-> g] :
       op \in {"isend", "irecv"}, g \in GroupArgs(r) }

\* batch_isend_irecv(p2p_op_list) with the list l
BatchCall(l) == [PlainCall("batch_isend_irecv", None) EXCEPT !.ops = l]

\* the batches of no operation and of one operation
BatchCalls(r) == { BatchCall(<< >>) } \cup { BatchCall(<< p >>) : p \in P2POps(r) }

\* the groups the followed rank creates: of all ranks, of rank 0 alone,
\* of the last rank alone
OpRanksArgs == { << >>, << << 0 >> >>, << << NumRanks - 1 >> >> }

\* the rank the behaviour follows
Followed(r) == \A q \in Ranks \ {r} : Untouched(q) /\ out[q] = NoOut

\* the followed rank is free to make a query or a collective; the
\* behaviour keeps one such call between two init / new_group / destroy
\* calls, since none of them writes anything that a later call reads
Asks(r) == Followed(r) /\ out[r] = NoOut

NextOps ==
  \/ /\ NumCalls < MaxOpCalls
     /\ \E r \in Ranks : Followed(r) /\ init_process_group(r, "gloo", LocalStore, "")
     /\ UNCHANGED script
  \/ /\ NumCalls < MaxOpCalls
     /\ \E r \in Ranks, l \in OpRanksArgs : Followed(r) /\ new_group(r, l, "", TRUE)
     /\ UNCHANGED script
  \/ /\ NumCalls < MaxOpCalls
     /\ \E r \in Ranks : \E g \in GroupArgs(r) : Followed(r) /\ destroy_process_group(r, g)
     /\ UNCHANGED script
  \/ \E r \in Ranks : PeersAdd(r)
  \/ \E r \in Ranks : BarrierFirstRead(r)
  \/ \E r \in Ranks : BarrierReturn(r)
  \/ \E r \in Ranks : BarrierPoll(r)
  \/ \E r \in Ranks : Asks(r) /\ \E c \in QueryCalls(r) : Op(r, c)
  \/ \E r \in Ranks : Asks(r) /\ \E c \in UnrootedCalls(r) : Op(r, c)
  \/ \E r \in Ranks : Asks(r) /\ \E c \in RootedCalls(r) : Op(r, c)
  \/ \E r \in Ranks : Asks(r) /\ \E c \in P2PCalls(r) : Op(r, c)
  \/ \E r \in Ranks : Asks(r) /\ \E c \in BatchCalls(r) : Op(r, c)
  \/ \E r \in Ranks : Asks(r) /\ \E c \in ReductionCalls(r) : Op(r, c)

SpecOps == Init /\ [][NextOps]_vars

\* -------------------------------------- one process, batches of sends
\* one rank creates the world group and subgroups, on the gloo or the nccl
\* backend (both taken to be built in), its peers checking in at its
\* barriers, and hands batch_isend_irecv every list of up to MaxBatch
\* operations on the groups it can hold
BatchBackendArgs == {"gloo", "nccl"}

BatchListCalls(r) == { BatchCall(l) : l \in SeqsUpTo(P2POps(r), MaxBatch) }

NextBatch ==
  \/ /\ NumCalls < MaxBatchCalls
     /\ \E r \in Ranks, b \in BatchBackendArgs :
           Followed(r) /\ init_process_group(r, b, LocalStore, "")
     /\ UNCHANGED script
  \/ /\ NumCalls < MaxBatchCalls
     /\ \E r \in Ranks, l \in OpRanksArgs, b \in BatchBackendArgs \cup {""} :
           Followed(r) /\ new_group(r, l, b, TRUE)
     /\ UNCHANGED script
  \/ \E r \in Ranks : PeersAdd(r)
  \/ \E r \in Ranks : BarrierFirstRead(r)
  \/ \E r \in Ranks : BarrierReturn(r)
  \/ \E r \in Ranks : BarrierPoll(r)
  \/ \E r \in Ranks : Asks(r) /\ \E c \in BatchListCalls(r) : Op(r, c)

SpecBatch == Init /\ [][NextBatch]_vars

\* ----------------------------------------------- longer rank lists
\* new_group(ranks=l) for every list of ranks of the world group, in any
\* order and with repetitions, up to a length above the world size
ListsRanksArgs == { << l >> : l \in SeqsUpTo(Ranks, MaxRanksLen) }

NextLists ==
  \/ /\ NumCalls < MaxListsCalls
     /\ \E r \in Ranks : Followed(r) /\ init_process_group(r, "gloo", LocalStore, "")
     /\ UNCHANGED script
  \/ /\ NumCalls < MaxListsCalls
     /\ \E r \in Ranks, l \in ListsRanksArgs :
           \E ok \in CtorOutcomes(l) : Followed(r) /\ new_group(r, l, "", ok)
     /\ UNCHANGED script
  \/ \E r \in Ranks : PeersAdd(r)
  \/ \E r \in Ranks : BarrierFirstRead(r)
  \/ \E r \in Ranks : BarrierReturn(r)
  \/ \E r \in Ranks : BarrierPoll(r)
  \/ \E r \in Ranks : Asks(r) /\ \E c \in QueryCalls(r) : Op(r, c)

SpecLists == Init /\ [][NextLists]_vars

\* -------------------------------------------- backend registration
\* Backend.register_backend(name, func) in the process of rank r:
\* setattr(Backend, name.upper(), func)
register_backend(r, name, func) ==
  /\ frame[r].pc = "idle"
  /\ attrs' = [attrs EXCEPT ![r] = Put(@, Upper(name), func)]
  /\ ncalls' = [ncalls EXCEPT ![r] = @ + 1]
  /\ out' = [out EXCEPT ![r] = NoOut]
  /\ UNCHANGED << WORLD, pg_map, pg_names, pg_group_ranks, group_count, store, pgs,
                  frame, ret, arrived, script >>

\* the call Backend(name) of rank r, not inside another call
BackendNew(r, name) ==
  /\ frame[r].pc = "idle"
  /\ out' = [out EXCEPT ![r] =
       LET o == [NoOut EXCEPT !.fn = "Backend", !.name = name]
           b == Backend(r, name)
       IN  IF b.err # "" THEN Fail(o, b.err) ELSE Return(o, << "str", b.value >>)]
  /\ UNCHANGED << WORLD, pg_map, pg_names, pg_group_ranks, group_count, store, pgs,
                  frame, ret, ncalls, arrived, script, attrs >>

\* the three spellings of a name
Spellings(name) ==
  CASE name = "gloo" -> {"gloo", "GLOO", "Gloo"}
    [] name = "nccl" -> {"nccl", "NCCL", "Nccl"}
    [] name = "mpi" -> {"mpi", "MPI", "Mpi"}
    [] name = "tcp" -> {"tcp", "TCP", "Tcp"}
    [] name = "hccl" -> {"hccl", "HCCL", "Hccl"}
    [] name = "undefined" -> {"undefined", "UNDEFINED", "Undefined"}
    [] name = "dummy" -> {"dummy", "DUMMY", "Dummy"}
    [] name = "foo" -> {"foo", "FOO", "Foo"}

\* the names a third-party extension registers: a new one, a built-in one
\* and the two reserved ones
RegisterNames == {"dummy", "gloo", "tcp", "undefined"}
\* the names handed to Backend(...)
BackendNames ==
  UNION { Spellings(n) : n \in {"gloo", "hccl", "tcp", "undefined", "dummy", "foo"} }
    \cup {"nccl", "mpi"}
\* the backend argument of init_process_group and of new_group
GroupBackendArgs == {"gloo", "HCCL", "dummy", "DUMMY"}

NextBackend ==
  \/ /\ NumCalls < MaxBackendCalls
     /\ \E r \in Ranks, n \in RegisterNames, f \in Funcs :
           Followed(r) /\ register_backend(r, n, f)
  \/ /\ NumCalls < MaxBackendCalls
     /\ \E r \in Ranks, b \in GroupBackendArgs :
           Followed(r) /\ init_process_group(r, b, LocalStore, "")
     /\ UNCHANGED script
  \/ /\ NumCalls < MaxBackendCalls
     /\ \E r \in Ranks, b \in GroupBackendArgs \cup {""} :
           Followed(r) /\ new_group(r, << >>, b, TRUE)
     /\ UNCHANGED script
  \/ \E r \in Ranks : PeersAdd(r)
  \/ \E r \in Ranks : BarrierFirstRead(r)
  \/ \E r \in Ranks : BarrierReturn(r)
  \/ \E r \in Ranks : BarrierPoll(r)
  \/ \E r \in Ranks : Asks(r) /\ \E n \in BackendNames : BackendNew(r, n)

SpecBackend == Init /\ [][NextBackend]_vars

\* =================================================================
\* Properties
\* =================================================================
InBarrier(r) == frame[r].pc \in {"added", "loop"}

\* the call of rank r in progress, or else its last completed call
Cur(r) == IF InBarrier(r) THEN frame[r] ELSE ret[r]

\* the step in which rank r returns normally from the barrier
ReturnsOk(r) == frame[r].pc = "loop" /\ frame'[r].pc = "idle" /\ ret'[r].err = ""

\* the step in which rank r leaves the barrier, either way
LeavesBarrier(r) == frame[r].pc = "loop" /\ frame'[r].pc = "idle"

\* C1: in a barrier round no rank returns successfully from
\* _store_based_barrier before all NumRanks ranks have called it, that is
\* before every rank has checked in at the round's key.
C1_NoReturnBeforeAllCalled ==
  [][\A r \in Ranks :
        ReturnsOk(r) => ArrivedAt(frame[r].st, frame[r].key) = Ranks]_vars

\* C2: a rank whose timeout has elapsed while the count it last read
\* differs from world_size leaves the barrier with the timeout error, and
\* the error reports the caller's rank, the round's key, the world size
\* and the value of the counter at the rank's last read.
C2_TimeoutReportsLastRead ==
  [][\A r \in Ranks :
        ( /\ LeavesBarrier(r)
          /\ frame[r].expired
          /\ frame[r].worker_count # PgSize(r, WORLD[r]) )
        => /\ ret'[r].err = "BarrierTimeout"
           /\ ret'[r].report =
                [rank |-> r,
                 key |-> StoreKey(group_count[r]),
                 world_size |-> PgSize(r, WORLD[r]),
                 worker_count |-> StoreGet(store[frame[r].st], StoreKey(group_count[r]))]]_vars

\* a timeout was raised whose reported count is not the rank's own
\* check-in alone: the counter moved between its first and its last read
C2_Witness ==
  \E r \in Ranks :
     /\ ret[r].err = "BarrierTimeout"
     /\ ret[r].report.rank = r
     /\ ret[r].report.worker_count > 1

\* C3: once all NumRanks ranks are inside the barrier for the same key of
\* the same store, and no timeout elapses, every one of them eventually
\* returns from it successfully.
AllInRound(r) ==
  \A q \in Ranks : /\ InBarrier(q)
                   /\ frame[q].key = frame[r].key
                   /\ frame[q].st = frame[r].st

C3_AllCalledAllReturn ==
  \A r \in Ranks :
     [](AllInRound(r) => <>(frame[r].pc = "idle" /\ ret[r].err = ""))

\* C4: no rank returns from init_process_group or new_group before every
\* member rank of the new group has constructed the group's transport
\* (the transport whose store prefix is the group's name).
MembersOfCall(r) ==
  IF frame[r].op = "init" THEN DOMAIN pg_group_ranks[r][WORLD[r]]
  ELSE DOMAIN pg_group_ranks[r][frame[r].pg]

C4_NoReturnBeforeMembersConstructed ==
  [][\A r \in Ranks :
        ReturnsOk(r) =>
          \A q \in MembersOfCall(r) :
             \E h \in DOMAIN pgs[q] : pgs[q][h].prefix = frame[r].name]_vars

\* C5: ranks that have made the same calls hold the same group counter,
\* used the same barrier key and the same group name in their last call,
\* whether or not they are members of the groups created.
C5_SameCallsSameCounter ==
  \A r1, r2 \in Ranks :
     ncalls[r1] = ncalls[r2] =>
        /\ group_count[r1] = group_count[r2]
        /\ Cur(r1).key = Cur(r2).key
        /\ Cur(r1).name = Cur(r2).name

\* a member and a non-member have both returned from the same new_group
C5_Witness ==
  \E r1, r2 \in Ranks :
     /\ ncalls[r1] = ncalls[r2]
     /\ ~InBarrier(r1) /\ ~InBarrier(r2)
     /\ ret[r1].op = "new_group" /\ ret[r1].err = "" /\ ret[r1].value = NON_GROUP_MEMBER
     /\ ret[r2].op = "new_group" /\ ret[r2].err = "" /\ ret[r2].value \in DOMAIN pgs[r2]
     /\ group_count[r1] > 1

\* the step in which rank r makes an API call
Calls(r) == ncalls'[r] # ncalls[r]

\* C6: a rank that calls new_group with a rank list that does not hold
\* its own global rank invokes no transport constructor and, when the call
\* returns, is handed the NON_GROUP_MEMBER sentinel.
C6_NonMemberGetsSentinel ==
  \A r \in Ranks :
     /\ ( /\ InBarrier(r)
          /\ frame[r].op = "new_group"
          /\ r \notin Elems(frame[r].ranks) )
        => (~frame[r].ctor /\ frame[r].pg = NON_GROUP_MEMBER)
     /\ ( /\ ~InBarrier(r)
          /\ ret[r].op = "new_group"
          /\ ret[r].name # ""
          /\ r \notin Elems(ret[r].ranks) )
        => /\ ~ret[r].ctor
           /\ ret[r].err = "" => ret[r].value = NON_GROUP_MEMBER

\* C7: a creation whose group name (generated from the counter or given
\* by the caller) is the name of a registered group fails with
\* DuplicateGroupName on the calling rank, member or not, and constructs
\* no transport.
C7_DuplicateNameFails ==
  [][\A r \in Ranks :
        ( /\ Calls(r)
          /\ Cur(r)'.name # ""
          /\ Cur(r)'.name \in Range(pg_names[r]) )
        => /\ ~InBarrier(r)'
           /\ ret'[r].err = "DuplicateGroupName"
           /\ ~ret'[r].ctor
           /\ pgs'[r] = pgs[r]]_vars

\* the duplicate name was refused on a rank that the list does not hold
C7_Witness ==
  \E r \in Ranks :
     /\ ret[r].op = "new_group"
     /\ ret[r].err = "DuplicateGroupName"
     /\ ret[r].ranks # << >>
     /\ r \notin Elems(ret[r].ranks)

\* C8: destroying the world group empties the three registries, unsets
\* the default group and sets the name counter to 0; the first group then
\* created without a name is named "0".
DestroysWorld(r) ==
  /\ Calls(r)
  /\ ret'[r].op = "destroy"
  /\ ret'[r].err = ""
  /\ WORLD[r] # None
  /\ ret'[r].group \in {None, WORLD[r]}

C8_DestroyWorldResets ==
  [][\A r \in Ranks :
        /\ DestroysWorld(r) =>
              /\ pg_map'[r] = Empty
              /\ pg_names'[r] = Empty
              /\ pg_group_ranks'[r] = Empty
              /\ WORLD'[r] = None
              /\ group_count'[r] = 0
        /\ (Calls(r) /\ group_count[r] = 0 /\ group_count'[r] # 0) =>
              Cur(r)'.name = "0"]_vars

\* the world group is named "0" for the second time in the process
C8_Witness ==
  \E r \in Ranks :
     /\ WORLD[r] # None
     /\ pg_names[r][WORLD[r]] = "0"
     /\ Cardinality({ h \in DOMAIN pgs[r] : pgs[r][h].prefix = "0" }) >= 2

\* new is old without the entry of g
SameWithout(new, old, g) ==
  /\ DOMAIN new = (DOMAIN old) \ {g}
  /\ \A h \in DOMAIN new : new[h] = old[h]

\* C9: destroying a registered group that is not the world group removes
\* that group's record, name and rank-map entries and leaves every other
\* entry, the default group and the name counter as they were.
C9_DestroySubgroupFrame ==
  [][\A r \in Ranks : \A g \in DOMAIN pg_map[r] :
        ( /\ Calls(r)
          /\ ret'[r].op = "destroy"
          /\ ret'[r].group = g
          /\ g # WORLD[r] )
        => /\ ret'[r].err = ""
           /\ SameWithout(pg_map'[r], pg_map[r], g)
           /\ SameWithout(pg_names'[r], pg_names[r], g)
           /\ SameWithout(pg_group_ranks'[r], pg_group_ranks[r], g)
           /\ WORLD'[r] = WORLD[r]
           /\ group_count'[r] = group_count[r]]_vars

\* a subgroup was destroyed while a sibling subgroup stays registered
C9_Witness ==
  \E r \in Ranks :
     /\ ret[r].op = "destroy"
     /\ ret[r].err = ""
     /\ ret[r].group \in DOMAIN pgs[r]
     /\ ret[r].group \notin DOMAIN pg_map[r]
     /\ WORLD[r] \in DOMAIN pg_map[r]
     /\ \E h \in DOMAIN pg_map[r] :
           h # WORLD[r] /\ h \in DOMAIN pg_names[r] /\ h \in DOMAIN pg_group_ranks[r]

\* C10: destroy_process_group with the NON_GROUP_MEMBER sentinel returns
\* and changes nothing; with a handle that is not registered (the world
\* group when there is none included) it fails with UnknownGroup and
\* changes nothing.
RegistriesUnchanged(r) ==
  /\ WORLD'[r] = WORLD[r]
  /\ pg_map'[r] = pg_map[r]
  /\ pg_names'[r] = pg_names[r]
  /\ pg_group_ranks'[r] = pg_group_ranks[r]
  /\ group_count'[r] = group_count[r]

DestroyTarget(r, g) == IF g = None THEN WORLD[r] ELSE g

C10_DestroyInvalidHandle ==
  [][\A r \in Ranks :
        (Calls(r) /\ ret'[r].op = "destroy") =>
           /\ ret'[r].group = NON_GROUP_MEMBER =>
                 (ret'[r].err = "" /\ RegistriesUnchanged(r))
           /\ ( /\ ret'[r].group # NON_GROUP_MEMBER
                /\ DestroyTarget(r, ret'[r].group) \notin DOMAIN pg_map[r] ) =>
                 (ret'[r].err = "UnknownGroup" /\ RegistriesUnchanged(r))]_vars

\* C11: init_process_group called while a world group exists fails with
\* AlreadyInitialized and leaves the default group, the three registries
\* and the name counter as they were.
C11_InitTwiceFails ==
  [][\A r \in Ranks :
        (Calls(r) /\ Cur(r)'.op = "init" /\ WORLD[r] # None) =>
           /\ ~InBarrier(r)'
           /\ ret'[r].err = "AlreadyInitialized"
           /\ RegistriesUnchanged(r)]_vars

\* a second init was refused while the world group and a subgroup exist
C11_Witness ==
  \E r \in Ranks :
     /\ ret[r].op = "init"
     /\ ret[r].err = "AlreadyInitialized"
     /\ WORLD[r] \in DOMAIN pg_map[r]
     /\ Cardinality(DOMAIN pg_map[r]) >= 2

\* C13: new_group called while no world group exists fails and changes
\* neither the registries nor the name counter; called while the world
\* group exists it leaves the world group's record, its name and the
\* default-group pointer as they were.
C13_NewGroupNeedsWorld ==
  [][\A r \in Ranks :
        (Calls(r) /\ Cur(r)'.op = "new_group") =>
           /\ WORLD[r] = None =>
                 /\ ~InBarrier(r)'
                 /\ ret'[r].err = "NotInitialized"
                 /\ RegistriesUnchanged(r)
           /\ WORLD[r] # None =>
                 /\ WORLD'[r] = WORLD[r]
                 /\ WORLD[r] \in DOMAIN pg_map'[r]
                 /\ WORLD[r] \in DOMAIN pg_names'[r]
                 /\ pg_map'[r][WORLD[r]] = pg_map[r][WORLD[r]]
                 /\ pg_names'[r][WORLD[r]] = pg_names[r][WORLD[r]]]_vars

\* new_group was refused after the world group had been destroyed
C13_Witness ==
  \E r \in Ranks :
     /\ ret[r].op = "new_group"
     /\ ret[r].err = "NotInitialized"
     /\ WORLD[r] = None
     /\ DOMAIN pgs[r] # {}

\* C14: once every rank has destroyed its world group and is inside a
\* fresh init_process_group, every rank eventually returns from that init
\* with a registry that holds the new world group and nothing else.
AllReinit ==
  \A q \in Ranks :
     /\ InBarrier(q)
     /\ frame[q].op = "init"
     /\ Cardinality(DOMAIN pgs[q]) = 2

ReinitDone(q) ==
  /\ ~InBarrier(q)
  /\ ret[q].op = "init"
  /\ ret[q].err = ""
  /\ WORLD[q] # None
  /\ DOMAIN pg_map[q] = {WORLD[q]}
  /\ DOMAIN pg_names[q] = {WORLD[q]}

C14_ReinitCompletes ==
  \A q \in Ranks : [](AllReinit => <>ReinitDone(q))

\* ------------------------------------------ queries and collectives
\* the step in which rank r makes a query, a point-to-point call or a
\* collective; out'[r] is what the call did
Answers(r) == out[r] = NoOut /\ out'[r] # NoOut

\* the calls that name one group (all but batch_isend_irecv)
GroupFns ==
  QueryFns \cup UnrootedFns
    \cup {"broadcast", "reduce", "gather", "scatter", "isend", "send", "irecv", "recv"}

\* C12: while there is no world group, every query, point-to-point call or
\* collective on a group other than NON_GROUP_MEMBER (reduce being asked
\* synchronously) raises NotInitialized and invokes no transport capability
C12_NoWorldNotInitialized ==
  [][\A r \in Ranks :
       ( /\ Answers(r)
         /\ WORLD[r] = None
         /\ out'[r].fn \in GroupFns
         /\ out'[r].group # NON_GROUP_MEMBER
         /\ ~(out'[r].fn = "reduce" /\ out'[r].async) )
       => out'[r].err = "NotInitialized" /\ out'[r].calls = << >>]_vars

\* the groups of rank r that have a rank map and are not its world group
Subgroups(r) == DOMAIN pg_group_ranks[r] \ {WORLD[r]}

\* C15: for every subgroup g and every global rank k that is a member of
\* g, _get_global_rank(g, _get_group_rank(g, k)) returns k
C15_RoundTrip ==
  \A r \in Ranks : \A g \in Subgroups(r) : \A k \in DOMAIN pg_group_ranks[r][g] :
     LET l == _get_group_rank(r, g, k)
     IN  /\ l.err = ""
         /\ _get_global_rank(r, g, l.value) = [err |-> "", value |-> k]

\* a subgroup in which some member's group-local rank differs from its
\* global rank
C15_Witness ==
  \E r \in Ranks : \E g \in Subgroups(r) : \E k \in DOMAIN pg_group_ranks[r][g] :
     /\ _get_group_rank(r, g, k).err = ""
     /\ _get_group_rank(r, g, k).value # k
     /\ _get_global_rank(r, g, _get_group_rank(r, g, k).value).value = k

\* the collectives and point-to-point calls that name one group
CollectiveFns == GroupFns \ QueryFns

\* the caller is not a member of the group the call is made on: the group
\* argument is the sentinel or, for a batch, every operation's group is
NonMemberCall(o) ==
  \/ o.fn \in CollectiveFns /\ o.group = NON_GROUP_MEMBER
  \/ /\ o.fn = "batch_isend_irecv"
     /\ o.ops # << >>
     /\ \A i \in 1 .. Len(o.ops) : o.ops[i].group = NON_GROUP_MEMBER

\* C16: a collective or point-to-point call (a batch included) on a group
\* the caller is not a member of raises nothing, invokes no transport
\* capability, waits for nothing and changes no state, whatever its other
\* arguments are (reduce being asked synchronously)
C16_NonMemberNoOp ==
  [][\A r \in Ranks :
       ( /\ Answers(r)
         /\ NonMemberCall(out'[r])
         /\ ~(out'[r].fn = "reduce" /\ out'[r].async) )
       => /\ out'[r].err = ""
          /\ out'[r].calls = << >>
          /\ out'[r].waits = << >>
          /\ RegistriesUnchanged(r)]_vars

\* C17: get_rank and get_world_size called with NON_GROUP_MEMBER return -1
\* and raise nothing, whether or not there is a world group
C17_SentinelQueries ==
  [][\A r \in Ranks :
       ( /\ Answers(r)
         /\ out'[r].fn \in {"get_rank", "get_world_size"}
         /\ out'[r].group = NON_GROUP_MEMBER )
       => out'[r].err = "" /\ out'[r].value = << "int", -1 >>]_vars

\* get_rank answered -1 for the sentinel after the world group was
\* destroyed
C17_Witness ==
  \E r \in Ranks :
     /\ out[r].fn = "get_rank"
     /\ out[r].group = NON_GROUP_MEMBER
     /\ out[r].value = << "int", -1 >>
     /\ WORLD[r] = None
     /\ DOMAIN pgs[r] # {}

\* the calls that take a root or a peer
RootedFns ==
  {"broadcast", "reduce", "gather", "scatter", "send", "recv", "isend", "irecv"}

\* the subgroups rank r is a member of
MemberSubgroups(r) == Subgroups(r) \ {NON_GROUP_MEMBER}

\* every transport call of outcome o that was handed a root or a peer was
\* handed root, on the transport object pg
HandsRoot(o, pg, root) ==
  \A i \in 1 .. Len(o.calls) :
     o.calls[i].root # NoInt => o.calls[i].root = Some(root) /\ o.calls[i].pg = pg

\* an accepted call other than reduce (which all-reduces) makes exactly
\* one transport call, and that call is handed a root or a peer
HandsOne(o) ==
  (o.err = "" /\ o.fn # "reduce") => Len(o.calls) = 1 /\ o.calls[1].root # NoInt

\* C18: a call with a root or a peer on a subgroup hands the transport the
\* group-local rank the group's rank map gives for the global rank
\* supplied (reduce, which hands no root, keeps the result where the
\* caller's group rank is that rank); on the world group, named or
\* omitted, it hands the supplied rank itself and reads no rank map
C18_RootTranslated ==
  [][\A r \in Ranks :
       ( /\ Answers(r)
         /\ out'[r].fn \in RootedFns
         /\ out'[r].rank # NoInt
         /\ WORLD[r] # None )
       => LET o == out'[r]
              k == o.rank[1]
              map == pg_group_ranks[r][o.group]
          IN  /\ o.group \in MemberSubgroups(r) =>
                   /\ o.err = "" => k \in DOMAIN map
                   /\ HandsOne(o)
                   /\ o.calls # << >> => HandsRoot(o, o.group, map[k])
                   /\ o.copied => map[PgRank(r, WORLD[r])] = map[k]
              /\ (o.group = None \/ o.group = WORLD[r]) =>
                   /\ o.lookups = << >>
                   /\ HandsOne(o)
                   /\ HandsRoot(o, WORLD[r], k)
                   /\ o.copied => PgRank(r, WORLD[r]) = k]_vars

\* a call on a subgroup handed the transport a rank other than the one
\* the caller supplied
C18_Witness ==
  \E r \in Ranks :
     /\ out[r].fn \in RootedFns \ {"reduce"}
     /\ out[r].group \in MemberSubgroups(r)
     /\ out[r].err = ""
     /\ Len(out[r].calls) = 1
     /\ out[r].calls[1].root # NoInt
     /\ out[r].calls[1].root # out[r].rank

\* the (group, global rank) pairs call o asks a group-local rank for
Targets(o) ==
  IF o.fn = "batch_isend_irecv"
    THEN { [group |-> o.ops[i].group, rank |-> o.ops[i].peer] : i \in 1 .. Len(o.ops) }
  ELSE IF o.fn \in RootedFns /\ o.rank # NoInt
    THEN { [group |-> o.group, rank |-> o.rank[1]] }
  ELSE {}

\* global rank k is outside subgroup g of rank r
Outside(r, g, k) ==
  g \in MemberSubgroups(r) /\ k \notin DOMAIN pg_group_ranks[r][g]

\* the arguments of call o other than its group and its root pass the
\* call's own validation
OtherArgsValid(r, o) ==
  /\ ~(o.fn = "reduce" /\ o.async)
  /\ o.fn \in {"gather", "scatter"} =>
       ListAccepted(PgRank(r, WORLD[r]), o.rank[1], o.given)

\* C19: a call with a root or a peer on a subgroup, its other arguments
\* being valid, raises RankNotInGroup and invokes no transport capability
\* when the root or peer is outside the subgroup; and RankNotInGroup is
\* raised only for a rank outside a subgroup the caller belongs to, never
\* for a call on NON_GROUP_MEMBER
C19_RankNotInGroup ==
  [][\A r \in Ranks : Answers(r) =>
       LET o == out'[r]
       IN  /\ ( /\ o.fn \in RootedFns
                /\ o.rank # NoInt
                /\ WORLD[r] # None
                /\ Outside(r, o.group, o.rank[1])
                /\ OtherArgsValid(r, o) )
              => o.err = "RankNotInGroup" /\ o.calls = << >>
           /\ o.err = "RankNotInGroup" =>
                /\ ~NonMemberCall(o)
                /\ o.group # NON_GROUP_MEMBER
                /\ \E t \in Targets(o) : Outside(r, t.group, t.rank)]_vars

\* a call on a subgroup was refused because its root or peer is outside
\* the subgroup
C19_Witness ==
  \E r \in Ranks :
     /\ out[r].fn \in RootedFns
     /\ out[r].rank # NoInt
     /\ Outside(r, out[r].group, out[r].rank[1])
     /\ out[r].err = "RankNotInGroup"
     /\ out[r].calls = << >>

\* the collectives with an async_op flag
AsyncFns == UnrootedFns \cup {"broadcast", "reduce", "gather", "scatter"}

\* call o is made with a world group present, on the world group or on a
\* subgroup the caller belongs to, its root (if it has one) being in the
\* group, its list argument passing validation and its reduction kind
\* being one the function accepts for the buffer's element type
Dispatchable(r, o) ==
  /\ WORLD[r] # None
  /\ ~(o.fn \in ComplexCheckedFns /\ o.dtype = "complex" /\ ~supports_complex(o.op))
  /\ o.group \in {None, WORLD[r]} \cup MemberSubgroups(r)
  /\ o.rank # NoInt =>
       /\ o.group \in MemberSubgroups(r) => ~Outside(r, o.group, o.rank[1])
       /\ o.fn \in {"gather", "scatter"} =>
            ListAccepted(PgRank(r, WORLD[r]), o.rank[1], o.given)

\* one transport call; synchronous: its handle is waited for once and
\* nothing is returned; asynchronous: its handle is returned, never waited
\* for
WaitsAsAsked(o) ==
  /\ o.err = ""
  /\ Len(o.calls) = 1
  /\ IF o.async THEN o.value = << "work", 1 >> /\ o.waits = << >>
     ELSE o.value = << "none" >> /\ o.waits = << 1 >>

LocalRank(r, g, k) ==
  IF g \in MemberSubgroups(r) THEN pg_group_ranks[r][g][k] ELSE k

\* the transport object a call on group g of rank r goes to
TargetPg(r, g) == IF g = None THEN WORLD[r] ELSE g

\* C21: a reduce that reaches the transport makes one all-reduce, on a
\* scratch copy of the caller's buffer, waits for it once, and copies the
\* result into the caller's buffer exactly when the caller's group-local
\* rank is the translated destination rank; a reduce that fails or is
\* skipped never writes the caller's buffer
C21_ReduceKeepsOnDst ==
  [][\A r \in Ranks : (Answers(r) /\ out'[r].fn = "reduce") =>
       LET o == out'[r]
       IN  IF ~o.async /\ Dispatchable(r, o)
             THEN /\ o.err = ""
                  /\ o.calls = << [pg |-> TargetPg(r, o.group), method |-> "allreduce",
                                   root |-> NoInt, list |-> FALSE,
                                   buf |-> "tensor_tmp"] >>
                  /\ o.waits = << 1 >>
                  /\ o.copied <=> ( LocalRank(r, o.group, PgRank(r, WORLD[r]))
                                      = LocalRank(r, o.group, o.rank[1]) )
           ELSE ~o.copied]_vars

\* a reduce on a subgroup kept the result on the destination, whose
\* group-local rank differs from the global rank the caller named
C21_Witness ==
  \E r \in Ranks :
     /\ out[r].fn = "reduce"
     /\ out[r].group \in MemberSubgroups(r)
     /\ out[r].copied
     /\ out[r].waits = << 1 >>
     /\ pg_group_ranks[r][out[r].group][out[r].rank[1]] # out[r].rank[1]

C23_ComplexReduction ==
  [][\A r \in Ranks :
       ( /\ Answers(r)
         /\ out'[r].fn \in ReductionFns
         /\ out'[r].dtype = "complex"
         /\ ~out'[r].async
         /\ Dispatchable(r, out'[r]) )
       => LET o == out'[r]
          IN  IF o.op = "SUM"
                THEN /\ o.err = ""
                     /\ Len(o.calls) = 1
                     /\ o.calls[1].buf = "view_as_real(tensor)"
              ELSE o.err = "UnsupportedReduceOnComplex" /\ o.calls = << >>]_vars

\* ------------------------------------------------------------ batches
\* the step in which rank r calls batch_isend_irecv
AnswersBatch(r) == Answers(r) /\ out'[r].fn = "batch_isend_irecv"

\* group argument g of rank r names a registered transport object
Bound(r, g) ==
  /\ g # NON_GROUP_MEMBER
  /\ TargetPg(r, g) \in DOMAIN pg_map[r]

\* the backend that object is registered with
BoundBackend(r, g) == pg_map[r][TargetPg(r, g)][1]

\* every operation of the batch is on a registered group
AllBound(r, ops) == \A i \in 1 .. Len(ops) : Bound(r, ops[i].group)

\* two operations of the batch are on groups of different backends
Mixed(r, ops) ==
  \E i, j \in 1 .. Len(ops) :
     BoundBackend(r, ops[i].group) # BoundBackend(r, ops[j].group)

\* C24: batch_isend_irecv given operations on groups bound to different
\* backends raises MixedBackendBatch; no send or receive is issued and
\* the batching region is not entered
C24_MixedBackendRefused ==
  [][\A r \in Ranks :
       (AnswersBatch(r) /\ AllBound(r, out'[r].ops) /\ Mixed(r, out'[r].ops))
       => out'[r].err = "MixedBackendBatch" /\ out'[r].calls = << >>]_vars

\* a batch whose first operation is on an nccl group and whose second is
\* on a gloo group was refused
C24_Witness ==
  \E r \in Ranks :
     /\ out[r].fn = "batch_isend_irecv"
     /\ Len(out[r].ops) = 2
     /\ AllBound(r, out[r].ops)
     /\ BoundBackend(r, out[r].ops[1].group) = "nccl"
     /\ BoundBackend(r, out[r].ops[2].group) = "gloo"
     /\ out[r].err = "MixedBackendBatch"

\* the batch passes _check_p2p_op_list: it is not empty, its operations
\* are on registered groups, all of one backend
Checked(r, ops) == ops # << >> /\ AllBound(r, ops) /\ ~Mixed(r, ops)

\* the positions of the transport calls of outcome o that invoke method
CallsOf(o, method) == { i \in 1 .. Len(o.calls) : o.calls[i].method = method }

\* C25: in a batch on the nccl backend the batching region is entered
\* once, before the first operation is issued, and left once, after the
\* last operation issued, whether every operation succeeded or one of
\* them failed; on another backend, or when the batch is refused, the
\* region is neither entered nor left
C25_RegionMatched ==
  [][\A r \in Ranks : AnswersBatch(r) =>
       LET o == out'[r]
           n == Len(o.calls)
       IN  IF Checked(r, o.ops) /\ BoundBackend(r, o.ops[1].group) = "nccl"
             THEN /\ n >= 2
                  /\ CallsOf(o, "_group_start") = {1}
                  /\ CallsOf(o, "_group_end") = {n}
                  /\ o.err = "" => n = Len(o.ops) + 2
           ELSE CallsOf(o, "_group_start") = {} /\ CallsOf(o, "_group_end") = {}]_vars

\* a batch on the nccl backend whose second operation failed: the region
\* was entered, one operation was issued, the region was left
C25_Witness ==
  \E r \in Ranks :
     /\ out[r].fn = "batch_isend_irecv"
     /\ Len(out[r].ops) = 2
     /\ out[r].err = "RankNotInGroup"
     /\ Len(out[r].calls) = 3
     /\ out[r].calls[1].method = "_group_start"
     /\ out[r].calls[2].method \in {"send", "recv"}
     /\ out[r].calls[3].method = "_group_end"

\* the transport call that batch operation p of rank r is to make
CallFor(r, p) ==
  [pg |-> TargetPg(r, p.group),
   method |-> IF p.op = "isend" THEN "send" ELSE "recv",
   root |-> Some(LocalRank(r, p.group, p.peer)),
   list |-> FALSE, buf |-> "tensor"]

\* C26: an accepted batch issues its operations in list order, one send
\* or receive each, and a batch that completes returns the handles of
\* those calls in that same order, one for every operation that produced
\* a handle
C26_HandlesInOrder ==
  [][\A r \in Ranks : (AnswersBatch(r) /\ Checked(r, out'[r].ops)) =>
       LET o == out'[r]
           first == IF BoundBackend(r, o.ops[1].group) = "nccl" THEN 1 ELSE 0
           issued == Cardinality(CallsOf(o, "send") \cup CallsOf(o, "recv"))
       IN  /\ issued <= Len(o.ops)
           /\ \A i \in 1 .. issued : o.calls[first + i] = CallFor(r, o.ops[i])
           /\ o.err = "" =>
                /\ issued = Len(o.ops)
                /\ o.value = << "list", [i \in 1 .. issued |-> first + i] >>]_vars

\* a batch of a send and a receive on different groups completed and
\* returned two handles
C26_Witness ==
  \E r \in Ranks :
     /\ out[r].fn = "batch_isend_irecv"
     /\ out[r].err = ""
     /\ Len(out[r].ops) = 2
     /\ out[r].ops[1].op # out[r].ops[2].op
     /\ out[r].ops[1].group # out[r].ops[2].group
     /\ out[r].value[1] = "list"
     /\ Len(out[r].value[2]) = 2


\* ================================================================
\* Backend names and registered backends
\* ================================================================
\* name.lower() on the backend names the model draws
Lower(name) ==
  CASE Upper(name) = "GLOO" -> "gloo"
    [] Upper(name) = "NCCL" -> "nccl"
    [] Upper(name) = "MPI" -> "mpi"
    [] Upper(name) = "TCP" -> "tcp"
    [] Upper(name) = "HCCL" -> "hccl"
    [] Upper(name) = "UNDEFINED" -> "undefined"
    [] Upper(name) = "DUMMY" -> "dummy"
    [] Upper(name) = "FOO" -> "foo"
    [] OTHER -> "?"

\* the attributes of the built-in backends and of the hccl entry
BuiltinAttrs == {"GLOO", "NCCL", "MPI", "HCCL"}

\* a function is registered under the name in the process of rank r
Registered(r, name) ==
  Upper(name) \in DOMAIN attrs[r] /\ attrs[r][Upper(name)] \in Funcs

\* a valid backend name: built-in, the hccl entry, or registered
ValidName(r, name) == Upper(name) \in BuiltinAttrs \/ Registered(r, name)

\* rank r has just evaluated Backend(name)
Resolves(r) == out'[r] # out[r] /\ out'[r].fn = "Backend"

\* C27: for every valid backend name (gloo, nccl, mpi, the hccl entry and
\* every registered name) Backend(name) gives, for the upper-case and for
\* the lower-case spelling, the same canonical lowercase identifier
C27_SpellingsAgree ==
  [][\A r \in Ranks :
       (Resolves(r) /\ ValidName(r, out'[r].name)) =>
         /\ out'[r].err = ""
         /\ out'[r].value = << "str", Lower(out'[r].name) >>
         /\ Backend(r, Upper(out'[r].name)) = Backend(r, Lower(out'[r].name))]_vars


\* C28: Backend("tcp"), in any letter case, always fails with
\* DeprecatedBackend, and Backend("undefined") and every name that is
\* neither built-in nor registered fail with InvalidBackend, whatever
\* register_backend calls came before
C28_ReservedNamesRefused ==
  [][\A r \in Ranks :
       Resolves(r) =>
         /\ Upper(out'[r].name) = "TCP" => out'[r].err = "DeprecatedBackend"
         /\ (\/ Upper(out'[r].name) = "UNDEFINED"
             \/ /\ Upper(out'[r].name) \notin BuiltinAttrs \cup {"TCP"}
                /\ ~Registered(r, out'[r].name))
              => out'[r].err = "InvalidBackend"]_vars


\* the transport object behind handle pg of rank r was made by calling
\* func with (PrefixStore(name of the group, st), rank, world_size, timeout)
\* and is registered with the backend identifier id and the store st
MadeBy(r, pg, func, rank, world_size, st, id) ==
  /\ pg \in DOMAIN pgs'[r] /\ pg \notin DOMAIN pgs[r]
  /\ pgs'[r][pg].by = func
  /\ pgs'[r][pg].prefix = pg_names'[r][pg]
  /\ pgs'[r][pg].st = st
  /\ pgs'[r][pg].rank = Some(rank)
  /\ pgs'[r][pg].size = world_size
  /\ pgs'[r][pg].timeout
  /\ pg_map'[r][pg] = << id, st >>

\* C29: once a factory is registered under a name, creating a group with
\* that backend name calls the registered factory with (name-prefixed
\* store, local rank, world size, timeout) on a member rank and registers
\* the handle it returns with that backend identifier and the shared
\* store; this also holds for a factory registered under a built-in name
C29_RegisteredFactoryUsed ==
  [][\A r \in Ranks, b \in GroupBackendArgs :
       /\ (Registered(r, b) /\ WORLD[r] = None
             /\ init_process_group(r, b, LocalStore, ""))
            => MadeBy(r, WORLD'[r], BackendAttr(r, Upper(b)), r, NumRanks, LocalStore, b)
       /\ (Registered(r, b) /\ WORLD[r] # None
             /\ new_group(r, << >>, b, TRUE))
            => MadeBy(r, frame'[r].pg, BackendAttr(r, Upper(b)),
                      PgRank(r, WORLD[r]), PgSize(r, WORLD[r]),
                      pg_map[r][WORLD[r]][2], b)]_vars


SubgroupKeys(r, registry) == (DOMAIN registry[r]) \ {WORLD[r]}

\* C31: whenever no init / new_group / destroy call of a rank is under
\* way, the record, name and rank-map registries have the same subgroup
\* keys: no handle is in one of them without the others
C31_RegistriesAgree ==
  \A r \in Ranks :
    frame[r].pc = "idle" =>
      /\ SubgroupKeys(r, pg_map) = SubgroupKeys(r, pg_names)
      /\ SubgroupKeys(r, pg_map) = SubgroupKeys(r, pg_group_ranks)


\* the call that rank r has just finished destroyed a subgroup
DestroysSubgroup(r) ==
  /\ Calls(r)
  /\ ret'[r].op = "destroy"
  /\ ret'[r].err = ""
  /\ WORLD[r] # None
  /\ ret'[r].group \notin {None, WORLD[r], NON_GROUP_MEMBER}

\* C32: no two groups registered on a rank have the same name, and the
\* name counter never decreases except that destroying the world group
\* sets it to 0; destroying a subgroup leaves it as it is
C32_NamesUniqueCounterGrows ==
  [][\A r \in Ranks :
       /\ \A g, h \in DOMAIN pg_names'[r] :
            g # h => pg_names'[r][g] # pg_names'[r][h]
       /\ group_count'[r] < group_count[r] =>
            DestroysWorld(r) /\ group_count'[r] = 0
       /\ DestroysSubgroup(r) => group_count'[r] = group_count[r]]_vars

\* a second group was refused the name of the world group, after the
\* counter had reached that name
C32_Witness ==
  \E r \in Ranks :
    /\ ret[r].op = "new_group"
    /\ ret[r].err = "DuplicateGroupName"
    /\ Cardinality(DOMAIN pg_names[r]) = 2
    /\ group_count[r] = 2


\* ================================================================
\* Rank lists
\* ================================================================
\* rank r, a member of the group it lists, has registered the subgroup
\* of its new_group call and is in the barrier that ends the call
JoinsNewGroup(r) ==
  /\ frame[r].pc # "idle"
  /\ frame[r].op = "new_group"
  /\ frame[r].pg # NON_GROUP_MEMBER
  /\ PgRank(r, WORLD[r]) \in Elems(frame[r].ranks)

\* the number of members of the set that rank below g
PositionAmong(members, g) == Cardinality({ m \in members : m < g })

\* C33: a member's group-local rank in a subgroup made by new_group, as
\* get_rank(group) returns it and as the transport constructor receives
\* it, is its position in the ascending rank list, whatever order the
\* caller listed the ranks in, so the rank map depends on the set of ranks
\* only; get_world_size(group) is the number of members
C33_LocalRankIsSortedPosition ==
  \A r \in Ranks :
    JoinsNewGroup(r) =>
      LET pg == frame[r].pg
          members == Elems(frame[r].ranks)
          me == PgRank(r, WORLD[r])
      IN  /\ pgs[r][pg].rank = Some(PositionAmong(members, me))
          /\ get_rank(r, pg).err = ""
          /\ get_rank(r, pg).value = PositionAmong(members, me)
          /\ pg_group_ranks[r][pg] = [g \in members |-> PositionAmong(members, g)]
          /\ get_world_size(r, pg) = [err |-> "", value |-> Cardinality(members)]


\* C39: for every rank list new_group accepts, lists that repeat a rank
\* included, the registered rank map is a bijection from the member
\* global ranks onto 0 .. n-1, n being the world size handed to the
\* transport constructor, and maps the calling member to the rank handed
\* to the transport constructor
C39_RankMapBijection ==
  \A r \in Ranks :
    JoinsNewGroup(r) =>
      LET pg == frame[r].pg
          map == pg_group_ranks[r][pg]
          n == pgs[r][pg].size
      IN  /\ DOMAIN map = Elems(frame[r].ranks)
          /\ Range(map) = 0 .. (n - 1)
          /\ \A g, h \in DOMAIN map : map[g] = map[h] => g = h
          /\ pgs[r][pg].rank = Some(map[PgRank(r, WORLD[r])])


\* ================================================================
\* The list argument of gather and scatter
\* ================================================================
\* C34: gather and scatter called by a member of the group raise
\* InvalidArgument, without a transport call, when the list is missing or
\* empty on the rank whose global rank is the root and when a non-empty
\* list is passed on another rank; the transport is handed the list on the
\* root rank only
C34_ListOnRootOnly ==
  [][\A r \in Ranks :
       ( /\ Answers(r)
         /\ out'[r].fn \in {"gather", "scatter"}
         /\ WORLD[r] # None
         /\ out'[r].group \in {None, WORLD[r]} \cup MemberSubgroups(r) )
       => LET o == out'[r]
              root == (o.rank[1] = PgRank(r, WORLD[r]))
          IN  /\ (root /\ ~o.given) \/ (~root /\ o.given) =>
                   o.err = "InvalidArgument" /\ o.calls = << >>
              /\ \A i \in DOMAIN o.calls : o.calls[i].list = root]_vars

\* scatter on a subgroup, called by the source rank without a list
C34_Witness ==
  \E r \in Ranks :
    /\ out[r].fn = "scatter"
    /\ out[r].group \in MemberSubgroups(r)
    /\ out[r].rank = Some(PgRank(r, WORLD[r]))
    /\ ~out[r].given
    /\ out[r].err = "InvalidArgument"
    /\ out[r].calls = << >>


\* ================================================================
\* The barrier's timeout and keys
\* ================================================================
\* the barrier of rank r has just raised its timeout error
TimesOut(r) ==
  /\ frame[r].pc = "loop"
  /\ frame'[r].pc = "idle"
  /\ ret'[r].err = "BarrierTimeout"

\* C35: _store_based_barrier raises the timeout error only when the
\* counter value it read last differs from world_size; a rank whose latest
\* read equals world_size returns successfully, whatever time has passed
C35_TimeoutOnlyWhenShort ==
  [][\A r \in Ranks :
       TimesOut(r) => ret'[r].report.worker_count # ret'[r].report.world_size]_vars


\* rank r has just checked in at its barrier: store.add(store_key, 1)
ChecksIn(r) == frame[r].pc = "idle" /\ frame'[r].pc = "added"

\* C36: over the init, new_group and destroy calls of a process that use
\* one store, no two barrier rounds use the same store key, also after
\* destroying the world group reset the counter and a new init followed:
\* a rank never checks in at a key it has checked in at before
C36_BarrierKeyFresh ==
  [][\A r \in Ranks :
       ChecksIn(r) => r \notin ArrivedAt(frame'[r].st, frame'[r].key)]_vars


\* ================================================================
\* Failed group creation
\* ================================================================
\* C37: when group creation fails with the duplicate-name error, the
\* group counter and the three registries are as they were before the
\* call: the failed creation takes no sequence number
C37_DuplicateNameNoEffect ==
  [][\A r \in Ranks :
       (Calls(r) /\ ret'[r].err = "DuplicateGroupName") =>
         /\ group_count'[r] = group_count[r]
         /\ pg_map'[r] = pg_map[r]
         /\ pg_names'[r] = pg_names[r]
         /\ pg_group_ranks'[r] = pg_group_ranks[r]]_vars


\* the registries of rank r hold nothing that the call which has just
\* timed out in its barrier registered
NothingLeft(r) ==
  IF ret'[r].op = "init"
    THEN /\ WORLD'[r] = None
         /\ pg_map'[r] = Empty /\ pg_names'[r] = Empty /\ pg_group_ranks'[r] = Empty
  ELSE LET made == {frame[r].pg}
       IN  /\ made \cap DOMAIN pg_map'[r] = {}
           /\ made \cap DOMAIN pg_names'[r] = {}
           /\ made \cap DOMAIN pg_group_ranks'[r] = {}

\* C38: when init_process_group or new_group fails because the barrier
\* times out, the group being created is not left registered: after a
\* failed init there is no default group and the registries are empty,
\* after a failed new_group the registries are as before the call
C38_TimeoutUnregisters ==
  [][\A r \in Ranks : TimesOut(r) => NothingLeft(r)]_vars


\* rank r calls new_group with a rank list that does not hold its own
\* global rank: the helper hands back the sentinel
NonMemberNewGroup(r) ==
  /\ Calls(r)
  /\ frame'[r].op = "new_group"
  /\ frame'[r].pc # "idle"
  /\ frame'[r].pg = NON_GROUP_MEMBER

\* C40: a new_group call on a rank that is not a member of the new group
\* leaves the record, name and rank-map registries unchanged (only the
\* group counter advances), and the NON_GROUP_MEMBER sentinel is never a
\* key of a registry
C40_NonMemberRegistersNothing ==
  [][\A r \in Ranks :
       /\ NonMemberNewGroup(r) =>
            /\ pg_map'[r] = pg_map[r]
            /\ pg_names'[r] = pg_names[r]
            /\ pg_group_ranks'[r] = pg_group_ranks[r]
       /\ NON_GROUP_MEMBER \notin DOMAIN pg_map'[r]
       /\ NON_GROUP_MEMBER \notin DOMAIN pg_names'[r]
       /\ NON_GROUP_MEMBER \notin DOMAIN pg_group_ranks'[r]]_vars

====
